---- MODULE Spec2Model ----
(***************************************************************************)
(* Scaling decision engine of Dynamic-Infrastructure-Scaling.              *)
(*                                                                         *)
(* Two scripts implement the engine:                                       *)
(*   "azure"      scripts/schedule-scaling.js                              *)
(*   "multicloud" the Azure/GCP variant of the same script (part_003)      *)
(* Both keep two module-level variables (the in-progress flag and the time *)
(* of the last scaling operation) and run checkAndScale, an async function *)
(* whose awaits are the only points where another invocation can run.      *)
(*                                                                         *)
(* Units: time is in milliseconds as in Date.now(); confidences are in     *)
(* hundredths (70 is 0.7); recommended_instances, a JavaScript number, is  *)
(* in halves (7 is 3.5) so that Number.isInteger and Math.round are not    *)
(* the identity; capacities are whole instances.  An optional value is a   *)
(* sequence of length 0 (undefined / null) or 1.                           *)
(***************************************************************************)
EXTENDS Integers, Sequences, FiniteSets, TLC

\* ---------------------------------------------------------------- bounds
MaxInstances == 4
MaxTicks == 3
MaxRetryCount == 2
NumInvocations == 2
MaxOllamaRetryCount == 2
MaxDepth == 3
MaxReasoningLen == 2
MaxSeriesLen == 4
MaxTemplateLen == 3
NumRefreshRequests == 2
MaxSubmits == 2
NumApiRequests == 3
MaxRequests == 4
MaxClock == 4
NumSetupRequests == 3

\* `const MAX_TOKENS = 5` of addRefreshToken.
MAX_TOKENS == 5

\* `age: z.number().min(18, ...)` of the schema the form hook is tested with.
MinimumAge == 18

\* `parseInt(process.env.CPU_THRESHOLD || '70')` and
\* `parseInt(process.env.CURRENT_INSTANCES || '2')` of the model service.
CPU_THRESHOLD == 70
CURRENT_INSTANCES == 2

\* `Joi.number().integer().min(1).max(100)` of customScalingSchema.
JoiMinInstanceCount == 1
JoiMaxInstanceCount == 100

Invocations == 1..NumInvocations
Scripts == {"azure", "multicloud"}
\* <<MIN_INSTANCES, MAX_INSTANCES>> as given on the command line; the scripts
\* do not check MIN <= MAX, so one inverted pair is included.
MinMaxChoices == {<<2, 3>>, <<3, 2>>}
RetryCounts == 1..MaxRetryCount
CooldownChoices == {2}
ThresholdChoices == {70}
Capacities == 1..MaxInstances

VARIABLES
    script,                   \* which of the two scripts the process runs
    DRY_RUN, MIN_INSTANCES, MAX_INSTANCES, RETRY_COUNT,
    SCALING_COOLDOWN, CONFIDENCE_THRESHOLD,
    lastScalingOperationTime, \* 0 (azure) / null (multicloud) is "unset"; modelled as 0
    isScalingInProgress,
    now,                      \* Date.now()
    capacity,                 \* the scale set's capacity at the cloud provider
    lastSuccessAt,            \* history: time of the last scaling action, over all processes
    cycles,                   \* one record per invocation of checkAndScale
    ollama,                   \* the recommender service: its settings and its call in flight
    parser,                   \* the response text being parsed and what came of it
    trend,                    \* the metric series being summarised for the prompt
    builder,                  \* the prompt template and the prompt built from it
    auth,                     \* the stored refresh tokens and the refresh requests
    form,                     \* the state of the form hook
    api,                      \* the recommendation cache and the API requests
    limiter,                  \* the rate limiter's record of requests per IP
    setup                     \* the users collection and the setup requests

config == <<script, DRY_RUN, MIN_INSTANCES, MAX_INSTANCES, RETRY_COUNT,
            SCALING_COOLDOWN, CONFIDENCE_THRESHOLD>>
vars == <<script, DRY_RUN, MIN_INSTANCES, MAX_INSTANCES, RETRY_COUNT,
          SCALING_COOLDOWN, CONFIDENCE_THRESHOLD,
          lastScalingOperationTime, isScalingInProgress, now, capacity,
          lastSuccessAt, cycles, ollama, parser, trend, builder, auth, form, api, limiter, setup>>

\* The state of the components the decision cycle calls into.
web == <<auth, form, api, limiter, setup>>
services == <<ollama, parser, trend, builder, web>>

\* ------------------------------------------------------- pure functions
Max(a, b) == IF a >= b THEN a ELSE b
Min(a, b) == IF a <= b THEN a ELSE b

\* Math.round on a number given in halves: rounds half up.
MathRound(h) == (h + 1) \div 2

\* Number.isInteger on a number given in halves.
IsInteger(h) == h % 2 = 0

\* The objects JSON.parse can hand to validateRecommendation: the required
\* field may be missing, non-integer or below 1; confidence may be missing or
\* out of range.
ParsedObjects ==
    [recommended_instances : {<<>>} \cup {<<h>> : h \in 0..(2 * MaxInstances)},
     confidence : {<<>>} \cup {<<c>> : c \in {0, 50, 70, 100, 150}}]

validateRecommendation(r) ==
    /\ r.recommended_instances # <<>>
    /\ ~(r.recommended_instances[1] < 2)
    /\ IsInteger(r.recommended_instances[1])
    /\ r.confidence # <<>> => ~(r.confidence[1] < 0 \/ r.confidence[1] > 100)

\* What getScalingRecommendation returns: null or a validated object.
RecommenderResults ==
    {<<>>} \cup {<<r>> : r \in {p \in ParsedObjects : validateRecommendation(p)}}

\* `recommendation.confidence || 1.0`: undefined and 0 are both falsy.
EffectiveConfidence(r) ==
    IF r.confidence = <<>> \/ r.confidence[1] = 0 THEN 100 ELSE r.confidence[1]

\* Mutant of RecommendedCapacity: the upper clamp is dropped.
RecommendedCapacity_NoUpperClamp(r, lo, hi) ==
    Max(lo, MathRound(r.recommended_instances[1]))

\* Math.max(MIN_INSTANCES, Math.min(MAX_INSTANCES, Math.round(x)))
RecommendedCapacity(r, lo, hi) ==
    Max(lo, Min(hi, MathRound(r.recommended_instances[1])))

cooldownMs(minutes) == minutes * 60 * 1000

\* Mutant of isInCooldown: the elapsed milliseconds are compared with the
\* cooldown in minutes.
isInCooldown_Minutes(last, t, minutes) ==
    IF last = 0 THEN FALSE
    ELSE (t - last) < minutes

isInCooldown(last, t, minutes) ==
    IF last = 0 THEN FALSE
    ELSE (t - last) < cooldownMs(minutes)

\* ------------------------------------------------------------ the cycle
IdleCycle ==
    [pc |-> "idle", currentCapacity |-> 0, recommendation |-> <<>>,
     targetCapacity |-> 0, attempt |-> 0, outcome |-> "none",
     returned |-> "none", recommenderCalls |-> 0, backendCalls |-> 0,
     failedAttempts |-> 0, requested |-> 0, snapshot |-> "unread"]

Running(i) == cycles[i].pc \notin {"idle", "done"}

\* The caller of checkAndScale takes the result of a finished call before it
\* calls again; calls overlap only with calls that are still running.
MayInvoke(i) ==
    /\ cycles[i].pc = "idle"
    /\ \A j \in Invocations : cycles[j].pc # "done"

Finish(c, o) == [c EXCEPT !.pc = "done", !.outcome = o, !.returned = "undefined"]

\* Mutant of InsideTry: the read of the current state happens before the try.
InsideTry_StateReadOutside(stage) == stage \in {"prompt", "recommend", "execute"}

\* The awaited calls and synchronous stages that lie inside checkAndScale's
\* try block: all of them.
InsideTry(stage) == stage \in {"getState", "prompt", "recommend", "execute"}

\* A throw at a stage: inside the try it is logged by the catch and the call
\* returns normally; outside, the exception reaches the caller.
Thrown(c, stage) ==
    IF InsideTry(stage)
    THEN Finish(c, IF stage = "execute" THEN "Failed" ELSE "Error")
    ELSE [c EXCEPT !.pc = "done", !.outcome = "Crashed", !.returned = "exception"]

\* Mutant of FlagAfterThrow: there is no finally block.
FlagAfterThrow_NoFinally(stage, flag) == flag

\* `finally { isScalingInProgress = false; }` runs for every throw inside the try.
FlagAfterThrow(stage, flag) == IF InsideTry(stage) THEN FALSE ELSE flag

\* What the metrics directory holds when loadLatestMetrics looks at it.
SnapshotKinds ==
    {"noDir", "noFile", "unreadable", "badJson", "noTimestamp", "noMetrics", "ok"}

\* Mutant of loadLatestMetrics: the parsed file is not validated.
loadLatestMetrics_NoValidation(kind, s) ==
    IF kind \in {"noDir", "noFile", "unreadable", "badJson"} THEN "null" ELSE "loaded"

\* loadLatestMetrics: null when the directory or the file is missing, the
\* file cannot be read or parsed, or the parsed object lacks `metrics`;
\* schedule-scaling.js also requires `timestamp`.
loadLatestMetrics(kind, s) ==
    IF kind \in {"noDir", "noFile", "unreadable", "badJson", "noMetrics"} THEN "null"
    ELSE IF kind = "noTimestamp" /\ s = "azure" THEN "null"
    ELSE "loaded"

\* ------------------------------------------------- recommendation parser
\* ollamaService.js lines 187-258: the text in `response.data.response` is
\* repaired, parsed and validated.  A text is a sequence of tokens: single
\* characters where the repairs look at characters, whole key-value pairs
\* elsewhere.
Whitespace == {" ", "\n"}
Quote == "\""
ReasoningOpen == "\"reasoning\": \""

\* Values of the parsed object: typeof, the number in the unit of its field
\* (halves for recommended_instances, hundredths for confidence), NaN, and
\* the characters of a string.
NumberValue(n) == [t |-> "number", n |-> n, nan |-> FALSE, s |-> <<>>]
NaNValue == [t |-> "number", n |-> 0, nan |-> TRUE, s |-> <<>>]
StringValue(s) == [t |-> "string", n |-> 0, nan |-> FALSE, s |-> s]

\* The key-value tokens: the field, its value, whether JSON.parse accepts the
\* token, and whether evaluating it runs an expression.
KeyValue(key, val, json, code) == [key |-> key, val |-> val, json |-> json, code |-> code]

KeyValueTokens ==
    [recommended_instances |->
        ("\"recommended_instances\": 3" :>
             KeyValue("recommended_instances", NumberValue(6), TRUE, FALSE)
         @@ "\"recommended_instances\": 2.5" :>
             KeyValue("recommended_instances", NumberValue(5), TRUE, FALSE)
         @@ "\"recommended_instances\": 0" :>
             KeyValue("recommended_instances", NumberValue(0), TRUE, FALSE)
         @@ "\"recommended_instances\": \"3\"" :>
             KeyValue("recommended_instances", StringValue(<<"3">>), TRUE, FALSE)
         @@ "recommended_instances: 3" :>
             KeyValue("recommended_instances", NumberValue(6), FALSE, FALSE)
         @@ "\"recommended_instances\": 1+2" :>
             KeyValue("recommended_instances", NumberValue(6), FALSE, TRUE)
         @@ "\"recommended_instances\": 0/0" :>
             KeyValue("recommended_instances", NaNValue, FALSE, TRUE)),
     confidence |->
        ("\"confidence\": 0.9" :> KeyValue("confidence", NumberValue(90), TRUE, FALSE)
         @@ "\"confidence\": 1.5" :> KeyValue("confidence", NumberValue(150), TRUE, FALSE)
         @@ "\"confidence\": \"high\"" :>
             KeyValue("confidence", StringValue(<<"high">>), TRUE, FALSE)),
     reasoning |->
        ("\"reasoning\": 7" :> KeyValue("reasoning", NumberValue(7), TRUE, FALSE))]

Fields == {"recommended_instances", "confidence", "reasoning"}
IsKeyValue(tok) == \E f \in Fields : tok \in DOMAIN KeyValueTokens[f]
Meaning(tok) ==
    KeyValueTokens[CHOOSE f \in Fields : tok \in DOMAIN KeyValueTokens[f]][tok]

\* Where the double-quote characters of a token are.
HasQuote(tok) ==
    tok \in {Quote, ReasoningOpen} \/ (IsKeyValue(tok) /\ tok # "recommended_instances: 3")
StartsWithQuote(tok) == HasQuote(tok)
EndsWithQuote(tok) ==
    tok \in {Quote, ReasoningOpen, "\"recommended_instances\": \"3\"", "\"confidence\": \"high\""}

\* String.prototype.trim
RECURSIVE TrimLeft(_)
TrimLeft(t) ==
    IF t # <<>> /\ Head(t) \in Whitespace THEN TrimLeft(Tail(t)) ELSE t

RECURSIVE TrimRight(_)
TrimRight(t) ==
    IF t # <<>> /\ t[Len(t)] \in Whitespace THEN TrimRight(SubSeq(t, 1, Len(t) - 1)) ELSE t

Trim(t) == TrimRight(TrimLeft(t))

Positions(t, tok) == {i \in 1..Len(t) : t[i] = tok}
MinOf(S) == CHOOSE x \in S : \A y \in S : x <= y
MaxOf(S) == CHOOSE x \in S : \A y \in S : x >= y

\* `responseText.match(/\{[\s\S]*\}/)`: from the first `{` that has a `}`
\* after it to the last `}`; the text as it is when there is no match.
ExtractObject(t) ==
    LET opens == {i \in Positions(t, "{") : \E j \in Positions(t, "}") : j > i} IN
    IF opens = {} THEN t
    ELSE SubSeq(t, MinOf(opens), MaxOf(Positions(t, "}")))

\* The first position from i on that holds no whitespace (Len + 1 if none).
RECURSIVE SkipWhitespace(_, _)
SkipWhitespace(t, i) ==
    IF i <= Len(t) /\ t[i] \in Whitespace THEN SkipWhitespace(t, i + 1) ELSE i

\* `responseText.replace(/,\s*}/g, '}')`
RECURSIVE RemoveTrailingCommas(_, _)
RemoveTrailingCommas(t, i) ==
    IF i > Len(t) THEN <<>>
    ELSE LET j == SkipWhitespace(t, i + 1) IN
         IF t[i] = "," /\ j <= Len(t) /\ t[j] = "}"
         THEN <<"}">> \o RemoveTrailingCommas(t, j + 1)
         ELSE <<t[i]>> \o RemoveTrailingCommas(t, i + 1)

\* `responseText.replace(/\n\s*/g, ' ')`
RECURSIVE CollapseNewlines(_, _)
CollapseNewlines(t, i) ==
    IF i > Len(t) THEN <<>>
    ELSE IF t[i] = "\n"
         THEN <<" ">> \o CollapseNewlines(t, SkipWhitespace(t, i + 1))
         ELSE <<t[i]>> \o CollapseNewlines(t, i + 1)

\* The four conditions under which the reasoning field is taken as unclosed.
ReasoningUnclosed(t) ==
    /\ Positions(t, ReasoningOpen) # {}
    /\ ~\E i \in Positions(t, ReasoningOpen) : i < Len(t) /\ StartsWithQuote(t[i + 1])
    /\ ~(Len(t) >= 2 /\ t[Len(t)] = "}" /\ EndsWithQuote(t[Len(t) - 1]))
    /\ ~\E i \in Positions(t, ReasoningOpen) : \E j \in (i + 1)..Len(t) : HasQuote(t[j])

\* The text up to and including the opening quote of the reasoning, then the
\* rest with its final run of non-quote characters replaced by a quote; the
\* rest holds no quote, so all of it is replaced.
CloseReasoning(t) ==
    IF ReasoningUnclosed(t)
    THEN SubSeq(t, 1, MinOf(Positions(t, ReasoningOpen))) \o <<Quote>>
    ELSE t

\* `if (!responseText.endsWith('}')) responseText += '}'`
CloseObject(t) ==
    IF t # <<>> /\ t[Len(t)] = "}" THEN t ELSE t \o <<"}">>

\* The text handed to JSON.parse.
Repair(text) ==
    CloseObject(CloseReasoning(
        CollapseNewlines(RemoveTrailingCommas(ExtractObject(Trim(text)), 1), 1)))

EmptyObject == [recommended_instances |-> <<>>, confidence |-> <<>>, reasoning |-> <<>>]
SyntaxError == [ok |-> FALSE, obj |-> EmptyObject]

\* Reading an object literal token by token.  strict: the JSON grammar
\* (quoted keys, literal values, no comma before the closing brace);
\* otherwise the grammar of a JavaScript object literal in parentheses.
RECURSIVE Scan(_, _, _, _, _, _)
Scan(t, i, st, obj, str, strict) ==
    IF i > Len(t) THEN [ok |-> st = "end", obj |-> obj]
    ELSE LET tok == t[i] IN
         IF st = "inString"
         THEN IF tok = Quote
              THEN Scan(t, i + 1, "afterMember",
                        [obj EXCEPT !.reasoning = <<StringValue(str)>>], <<>>, strict)
              ELSE IF HasQuote(tok) \/ tok = "\n" THEN SyntaxError
              ELSE Scan(t, i + 1, "inString", obj, Append(str, tok), strict)
         ELSE IF tok \in Whitespace THEN Scan(t, i + 1, st, obj, str, strict)
         ELSE IF st = "start"
         THEN IF tok = "{" THEN Scan(t, i + 1, "afterOpen", obj, str, strict)
              ELSE SyntaxError
         ELSE IF st \in {"afterOpen", "afterComma"}
         THEN IF IsKeyValue(tok) /\ (strict => Meaning(tok).json)
              THEN Scan(t, i + 1, "afterMember",
                        [obj EXCEPT ![Meaning(tok).key] = <<Meaning(tok).val>>], str, strict)
              ELSE IF tok = ReasoningOpen
              THEN Scan(t, i + 1, "inString", obj, <<>>, strict)
              ELSE IF tok = "}" /\ (st = "afterOpen" \/ ~strict)
              THEN Scan(t, i + 1, "end", obj, str, strict)
              ELSE SyntaxError
         ELSE IF st = "afterMember"
         THEN IF tok = "," THEN Scan(t, i + 1, "afterComma", obj, str, strict)
              ELSE IF tok = "}" THEN Scan(t, i + 1, "end", obj, str, strict)
              ELSE SyntaxError
         ELSE SyntaxError

JSONParse(t) == Scan(t, 1, "start", EmptyObject, <<>>, TRUE)

\* eval(`(${responseText})`)
Eval(t) == Scan(t, 1, "start", EmptyObject, <<>>, FALSE)

\* Mutant of validateRecommendationTyped: Number.isInteger is not asked.
validateRecommendationTyped_NoIntegerCheck(r) ==
    /\ r.recommended_instances # <<>>
    /\ r.recommended_instances[1].t = "number"
    /\ ~r.recommended_instances[1].nan
    /\ ~(r.recommended_instances[1].n < 2)
    /\ r.confidence # <<>> =>
         /\ r.confidence[1].t = "number"
         /\ ~(r.confidence[1].n < 0 \/ r.confidence[1].n > 100)
    /\ r.reasoning # <<>> => r.reasoning[1].t = "string"

\* validateRecommendation on an object whose values carry their type.
validateRecommendationTyped(r) ==
    /\ r.recommended_instances # <<>>
    /\ r.recommended_instances[1].t = "number"
    /\ ~r.recommended_instances[1].nan
    /\ ~(r.recommended_instances[1].n < 2)
    /\ IsInteger(r.recommended_instances[1].n)
    /\ r.confidence # <<>> =>
         /\ r.confidence[1].t = "number"
         /\ ~(r.confidence[1].n < 0 \/ r.confidence[1].n > 100)
    /\ r.reasoning # <<>> => r.reasoning[1].t = "string"

\* `catch (parseError) { ... recommendation = eval(...) }`
FallsBackToEval(parsed) == ~parsed.ok

\* Lines 190-258 for one response text: what is returned or thrown, and
\* whether the text went through eval.
ParseResponse(text) ==
    LET responseText == Repair(text)
        parsed == JSONParse(responseText)
        evaluated == FallsBackToEval(parsed)
        recommendation == IF evaluated THEN Eval(responseText) ELSE parsed
        base == [responseText |-> responseText, evaluated |-> evaluated,
                 ranCode |-> evaluated /\ recommendation.ok
                               /\ \E i \in 1..Len(responseText) :
                                    IsKeyValue(responseText[i])
                                      /\ Meaning(responseText[i]).code,
                 object |-> <<>>, value |-> <<>>]
    IN IF ~recommendation.ok
       THEN base @@ [outcome |-> "unparseable"]
       ELSE IF ~validateRecommendationTyped(recommendation.obj)
       THEN [base EXCEPT !.object = <<recommendation.obj>>] @@ [outcome |-> "invalid"]
       ELSE [base EXCEPT !.object = <<recommendation.obj>>,
                         !.value = <<recommendation.obj>>] @@ [outcome |-> "valid"]

\* The response texts the parser is run on: an object literal as a language
\* model writes it, with or without prose in front, pretty-printed or not,
\* complete, cut off, or with a comma before the closing brace.
ReasoningChars == {"a", ",", "}"}
ReasoningTexts == UNION {[1..n -> ReasoningChars] : n \in 0..MaxReasoningLen}
ReasoningForms ==
    {[form |-> f, chars |-> <<>>] : f \in {"absent", "number"}}
    \cup {[form |-> f, chars |-> c] : f \in {"closed", "unclosed"}, c \in ReasoningTexts}

ResponseShapes ==
    [lead : {"none", "prose"},
     instances : {""} \cup DOMAIN KeyValueTokens.recommended_instances,
     confidence : {""} \cup DOMAIN KeyValueTokens.confidence,
     reasoning : ReasoningForms,
     layout : {"compact", "pretty"},
     tail : {"closed", "truncated", "trailingComma"}]

RECURSIVE Join(_, _)
Join(members, separator) ==
    IF members = <<>> THEN <<>>
    ELSE IF Len(members) = 1 THEN members[1]
    ELSE members[1] \o separator \o Join(Tail(members), separator)

IsPresent(member) == member # <<>>

\* The text of a shape.
Render(shape) ==
    LET pretty == shape.layout = "pretty"
        reasoning ==
            IF shape.reasoning.form = "absent" THEN <<>>
            ELSE IF shape.reasoning.form = "number" THEN <<"\"reasoning\": 7">>
            ELSE <<ReasoningOpen>> \o shape.reasoning.chars
                   \o (IF shape.reasoning.form = "closed" THEN <<Quote>> ELSE <<>>)
        members ==
            SelectSeq(<< IF shape.instances = "" THEN <<>> ELSE <<shape.instances>>,
                         IF shape.confidence = "" THEN <<>> ELSE <<shape.confidence>>,
                         reasoning >>, IsPresent)
        before == IF pretty THEN <<"\n">> ELSE <<>>
    IN (IF shape.lead = "prose" THEN <<"Here is my answer:", " ">> ELSE <<>>)
       \o <<"{">> \o (IF pretty THEN <<"\n", " ">> ELSE <<>>)
       \o Join(members, IF pretty THEN <<",", "\n", " ">> ELSE <<",", " ">>)
       \o (IF shape.tail = "closed" THEN before \o <<"}">>
           ELSE IF shape.tail = "trailingComma" THEN <<",">> \o before \o <<"}">>
           ELSE <<>>)

\* A shape that is a well-formed JSON object holding the three fields, each
\* valid by the field rules, and the object it denotes.
WellFormed(shape) ==
    /\ shape.lead = "none"
    /\ shape.tail = "closed"
    /\ shape.instances = "\"recommended_instances\": 3"
    /\ shape.confidence = "\"confidence\": 0.9"
    /\ shape.reasoning.form = "closed"

Denoted(shape) ==
    [recommended_instances |-> <<Meaning(shape.instances).val>>,
     confidence |-> <<Meaning(shape.confidence).val>>,
     reasoning |-> <<StringValue(shape.reasoning.chars)>>]

NoResult ==
    [responseText |-> <<>>, evaluated |-> FALSE, ranCode |-> FALSE,
     object |-> <<>>, value |-> <<>>, outcome |-> "none"]

ParserIdle ==
    [pc |-> "idle", shape |-> <<>>, text |-> <<>>, result |-> NoResult]

\* A response has arrived and is parsed.
Parse ==
    /\ parser.pc = "received"
    /\ parser' = [parser EXCEPT !.pc = "parsed", !.result = ParseResponse(parser.text)]

\* ------------------------------------------------- metric summary
\* constructOllamaPrompt's summary of one metric (current, average, trend),
\* with calculateTrend of schedule-scaling.js and the inline trend code of the
\* multi-cloud script.  Averages are kept as sum and count; comparisons of
\* percentages are cross-multiplied, so the arithmetic is exact.
SampleValues == {-100, 0, 100, 107}
Series == UNION {[1..n -> SampleValues] : n \in 0..MaxSeriesLen}

RECURSIVE Sum(_)
Sum(values) == IF values = <<>> THEN 0 ELSE Head(values) + Sum(Tail(values))

Abs(x) == IF x < 0 THEN -x ELSE x

Reverse(values) == [i \in 1..Len(values) |-> values[Len(values) + 1 - i]]

\* The history as fetch-metrics.js writes it: sorted by timestamp, descending.
Delivered(samples) == Reverse(samples)

\* `values.slice(0, halfIndex)` and `values.slice(halfIndex)` with
\* halfIndex = Math.floor(values.length / 2)
LowerSlice(values) == SubSeq(values, 1, Len(values) \div 2)
UpperSlice(values) == SubSeq(values, Len(values) \div 2 + 1, Len(values))

\* The sign of (secondAvg - firstAvg) / divisor * 100 - threshold, where the
\* averages are sums over counts and divisor is firstAvg or its absolute value.
ExceedsPercent(first, second, divisorSum, threshold) ==
    LET n1 == Len(first)
        n2 == Len(second)
        difference == (Sum(second) * n1 - Sum(first) * n2) * 100
    IN IF divisorSum > 0 THEN difference > threshold * divisorSum * n2
       ELSE difference < threshold * divisorSum * n2

FallsPercent(first, second, divisorSum, threshold) ==
    LET n1 == Len(first)
        n2 == Len(second)
        difference == (Sum(second) * n1 - Sum(first) * n2) * 100
    IN IF divisorSum > 0 THEN difference < -threshold * divisorSum * n2
       ELSE difference > -threshold * divisorSum * n2

\* calculateTrend (schedule-scaling.js lines 230-260)
calculateTrend(values) ==
    IF Len(values) < 2 THEN "Stable"
    ELSE LET firstHalf == LowerSlice(values)
             secondHalf == UpperSlice(values)
         IN IF Sum(firstHalf) = 0
            THEN IF Sum(secondHalf) > 0 THEN "Increasing"
                 ELSE IF Sum(secondHalf) < 0 THEN "Decreasing"
                 ELSE "Stable"
            ELSE IF ExceedsPercent(firstHalf, secondHalf, Abs(Sum(firstHalf)), 5)
                 THEN "Increasing"
            ELSE IF FallsPercent(firstHalf, secondHalf, Abs(Sum(firstHalf)), 5)
                 THEN "Decreasing"
            ELSE "Stable"

\* The trend code inside the multi-cloud constructOllamaPrompt (lines
\* 410-431): the halves are taken the other way round, the change is divided
\* by firstAvg itself, and a zero firstAvg gives a change of 0.
InlineTrend(values) ==
    IF Len(values) < 3 THEN "Unknown"
    ELSE LET firstHalf == UpperSlice(values)
             secondHalf == LowerSlice(values)
         IN IF Sum(firstHalf) = 0 THEN "Stable"
            ELSE IF ExceedsPercent(firstHalf, secondHalf, Sum(firstHalf), 10)
                 THEN "Increasing"
            ELSE IF FallsPercent(firstHalf, secondHalf, Sum(firstHalf), 10)
                 THEN "Decreasing"
            ELSE "Stable"

\* The halves the code calls first and second.
FirstHalf(values, s) == IF s = "azure" THEN LowerSlice(values) ELSE UpperSlice(values)
SecondHalf(values, s) == IF s = "azure" THEN UpperSlice(values) ELSE LowerSlice(values)

\* The three values the prompt shows for a metric; <<>> is 'Unknown'.
\* schedule-scaling.js takes `current` from the collector (the latest point),
\* the multi-cloud script takes values[0].
Summary(values, s) ==
    IF values = <<>>
    THEN [current |-> <<>>, average |-> <<>>, trend |-> "Unknown"]
    ELSE [current |-> <<values[1]>>,
          average |-> <<Sum(values), Len(values)>>,
          trend |-> IF s = "azure" THEN calculateTrend(values) ELSE InlineTrend(values)]

TrendIdle == [pc |-> "idle", samples |-> <<>>, summary |-> Summary(<<>>, "azure")]

\* The prompt is built: the delivered history is summarised.
Summarise ==
    /\ trend.pc = "collected"
    /\ trend' = [trend EXCEPT !.pc = "summarised",
                              !.summary = Summary(Delivered(trend.samples), script)]

\* ------------------------------------------------- prompt template
\* constructOllamaPrompt, the custom-template branch (schedule-scaling.js
\* lines 265-282, multi-cloud script lines 354-386).  A template is a
\* sequence of tokens: plain text and placeholders.
TemplateTokens == {"text", "{{current_capacity}}", "{{cloud_provider}}", "{{region}}"}
Templates == UNION {[1..n -> TemplateTokens] : n \in 0..MaxTemplateLen}

\* PROMPT_FILE: not given, naming no file, naming something readFileSync
\* fails on, or naming a readable file.
PromptFileStates == {"unset", "missing", "unreadable", "readable"}

\* The chain of `.replace(placeholder, value)` calls, in order; the Azure
\* branch of the multi-cloud script has one call more.
Replacements(s, cap, lo, hi) ==
    << <<"{{vmss_name}}", "vmss-1">>,
       <<"{{resource_group}}", "rg-1">>,
       <<"{{metrics_data}}", "{\"metrics\": {}}">>,
       <<"{{current_capacity}}", ToString(cap)>>,
       <<"{{min_instances}}", ToString(lo)>>,
       <<"{{max_instances}}", ToString(hi)>> >>
    \o (IF s = "multicloud" THEN << <<"{{cloud_provider}}", "Azure">> >> ELSE <<>>)

Recognised(s) ==
    LET reps == Replacements(s, 0, 0, 0) IN {reps[k][1] : k \in 1..Len(reps)}

\* String.prototype.replace with a string pattern: the first occurrence only.
ReplaceFirst(t, placeholder, value) ==
    IF Positions(t, placeholder) = {} THEN t
    ELSE [t EXCEPT ![MinOf(Positions(t, placeholder))] = value]

RECURSIVE ApplyAll(_, _)
ApplyAll(t, reps) ==
    IF reps = <<>> THEN t
    ELSE ApplyAll(ReplaceFirst(t, Head(reps)[1], Head(reps)[2]), Tail(reps))

\* What the rest of constructOllamaPrompt returns: the built-in template
\* filled with the metric summary.
BuiltInPrompt == <<"built-in prompt">>

\* Mutant of AfterReadError: the error of readFileSync is not caught.
AfterReadError_Rethrows(builtIn) == [threw |-> TRUE, text |-> <<>>]

\* `catch (error) { logger.error(...) }`, then the default construction.
AfterReadError(builtIn) == [threw |-> FALSE, text |-> builtIn]

BuildPrompt(file, template, s, cap, lo, hi) ==
    IF file \in {"unset", "missing"} THEN [threw |-> FALSE, text |-> BuiltInPrompt]
    ELSE IF file = "unreadable" THEN AfterReadError(BuiltInPrompt)
    ELSE [threw |-> FALSE, text |-> ApplyAll(template, Replacements(s, cap, lo, hi))]

PromptIdle ==
    [pc |-> "idle", file |-> "unset", template |-> <<>>,
     built |-> [threw |-> FALSE, text |-> <<>>]]

\* constructOllamaPrompt(vmss, metricsData)
constructOllamaPrompt ==
    /\ builder.pc = "configured"
    /\ builder' = [builder EXCEPT
                     !.pc = "built",
                     !.built = BuildPrompt(builder.file, builder.template, script,
                                           capacity, MIN_INSTANCES, MAX_INSTANCES)]

\* ------------------------------------------------- token refresh
\* POST /api/auth/refresh (auth routes lines 86-143) against the one user
\* document that holds the refresh tokens.  Tokens are numbers; 0 stands for
\* a request without a refreshToken, UnknownToken for one no user holds.
RefreshRequests == 1..NumRefreshRequests
StoredTokens == {1, 2}
UnknownToken == 9
PresentedTokens == {0, UnknownToken} \cup StoredTokens

RECURSIVE Filter(_, _)
\* Array.prototype.filter with the test `keep`, a set of kept members.
Filter(seq, keep) ==
    IF seq = <<>> THEN <<>>
    ELSE (IF Head(seq) \in keep THEN <<Head(seq)>> ELSE <<>>) \o Filter(Tail(seq), keep)

Members(seq) == {seq[k] : k \in 1..Len(seq)}

\* userSchema.methods.findRefreshToken: the token if the document holds it
\* and it has not expired, else null (<<>>).
findRefreshToken(doc, token, expired) ==
    IF token \notin Members(doc) THEN <<>>
    ELSE IF token \in expired THEN <<>>
    ELSE <<token>>

\* userSchema.methods.removeRefreshToken
removeRefreshToken(doc, token) == Filter(doc, Members(doc) \ {token})

\* userSchema.methods.addRefreshToken: drop expired tokens, push the new
\* one, keep the last MAX_TOKENS.
addRefreshToken(doc, token, expired) ==
    LET pushed == Append(Filter(doc, Members(doc) \ expired), token) IN
    IF Len(pushed) > MAX_TOKENS
    THEN SubSeq(pushed, Len(pushed) - MAX_TOKENS + 1, Len(pushed))
    ELSE pushed

IdleRequest == [pc |-> "idle", presented |-> 0, doc |-> <<>>, status |-> 0, issued |-> <<>>]

AuthIdle ==
    [db |-> <<1, 2>>, expired |-> {}, generated |-> 0,
     reqs |-> [r \in RefreshRequests |-> IdleRequest]]

\* generateRandomToken: a value no earlier token has.
FreshToken(a) == 100 + a.generated + 1

\* The request arrives; `await User.findOne({'refreshTokens.token': t})`
\* loads a copy of the user document, or nothing.
FindUser(r) ==
    /\ auth.reqs[r].pc = "idle"
    /\ \E t \in PresentedTokens :
         LET q == [auth.reqs[r] EXCEPT !.presented = t] IN
         IF t = 0
         THEN auth' = [auth EXCEPT !.reqs[r] = [q EXCEPT !.pc = "done", !.status = 400]]
         ELSE IF t \notin Members(auth.db)
         THEN auth' = [auth EXCEPT !.reqs[r] = [q EXCEPT !.pc = "done", !.status = 401]]
         ELSE auth' = [auth EXCEPT !.reqs[r] = [q EXCEPT !.pc = "found", !.doc = auth.db]]

\* From the resolved findOne to `await user.save()`: the token is checked
\* and rotated on the loaded copy.
Rotate(r) ==
    /\ auth.reqs[r].pc = "found"
    /\ LET q == auth.reqs[r] IN
       IF findRefreshToken(q.doc, q.presented, auth.expired) = <<>>
       THEN auth' = [auth EXCEPT !.reqs[r] = [q EXCEPT !.pc = "done", !.status = 401]]
       ELSE LET fresh == FreshToken(auth) IN
            auth' = [auth EXCEPT
                        !.generated = @ + 1,
                        !.reqs[r] = [q EXCEPT
                            !.pc = "saving",
                            !.issued = <<fresh>>,
                            !.doc = addRefreshToken(removeRefreshToken(q.doc, q.presented),
                                                    fresh, auth.expired)]]

\* user.save() writes the refreshTokens array of the copy over the stored
\* one; the response carries the new tokens.
Save(r) ==
    /\ auth.reqs[r].pc = "saving"
    /\ auth' = [auth EXCEPT !.db = auth.reqs[r].doc,
                            !.reqs[r].pc = "done",
                            !.reqs[r].status = 200]

\* The expiry date of a stored token passes.
Expire ==
    /\ \E t \in Members(auth.db) \ auth.expired :
         auth' = [auth EXCEPT !.expired = @ \cup {t}]

\* ------------------------------------------------- form hook
\* useForm (lib/hooks/use-form, lines 14-90) with the schema of its test:
\* name: z.string().min(1), email: z.string().email(), age: z.number().min(18).
FormFields == <<"name", "email", "age">>
FieldNames == {"name", "email", "age"}
NameValues == {"", "John Doe"}
EmailValues == {"", "john@example.com"}
AgeValues == {0, 25}
initialValues == [name |-> "", email |-> "", age |-> 0]

FieldValues(name) ==
    IF name = "name" THEN NameValues
    ELSE IF name = "email" THEN EmailValues
    ELSE AgeValues

\* The issue zod raises for a field, if any: its path and its message.
FieldIssue(field, values) ==
    IF field = "name" /\ values.name = ""
    THEN << [path |-> <<"name">>, message |-> "Name is required"] >>
    ELSE IF field = "email" /\ values.email \notin {"john@example.com"}
    THEN << [path |-> <<"email">>, message |-> "Invalid email"] >>
    ELSE IF field = "age" /\ values.age < MinimumAge
    THEN << [path |-> <<"age">>, message |-> "Must be at least 18"] >>
    ELSE <<>>

\* schema.parse(values): the parsed data, or a ZodError with one issue per
\* failed check, in schema order.
schemaParse(values) ==
    LET issues == FieldIssue(FormFields[1], values) \o FieldIssue(FormFields[2], values)
                    \o FieldIssue(FormFields[3], values) IN
    IF issues = <<>>
    THEN [ok |-> TRUE,
          data |-> [name |-> values.name, email |-> values.email, age |-> values.age],
          issues |-> <<>>]
    ELSE [ok |-> FALSE, data |-> <<>>, issues |-> issues]

\* Mutant of formatErrors: only the first issue is recorded.
formatErrors_FirstOnly(issues) ==
    LET first == {k \in 1..Len(issues) : k = 1 /\ Len(issues[k].path) > 0} IN
    [f \in {issues[k].path[1] : k \in first} |->
        issues[CHOOSE k \in first : issues[k].path[1] = f].message]

\* `error.errors.forEach(err => { if (err.path.length > 0) formattedErrors[err.path[0]] = err.message })`:
\* a later issue of the same field replaces an earlier one.
formatErrors(issues) ==
    LET withPath == {k \in 1..Len(issues) : Len(issues[k].path) > 0} IN
    [f \in {issues[k].path[1] : k \in withPath} |->
        issues[MaxOf({k \in withPath : issues[k].path[1] = f})].message]

NoErrors == [f \in {} |-> ""]

FormIdle ==
    [pc |-> "ready", values |-> initialValues, errors |-> NoErrors,
     isSubmitting |-> FALSE, isSuccess |-> FALSE,
     submits |-> 0, calledWith |-> <<>>, settled |-> "none"]

\* handleChange(name, value)
handleChange ==
    \E name \in FieldNames :
      \E value \in FieldValues(name) :
        /\ form' = [form EXCEPT
                       !.values = [@ EXCEPT ![name] = value],
                       !.errors = IF name \in DOMAIN @ /\ @[name] # ""
                                  THEN [f \in (DOMAIN @) \ {name} |-> @[f]]
                                  ELSE @,
                       !.isSuccess = IF @ THEN FALSE ELSE @]

\* handleSubmit up to its first await: the flags are reset and the values
\* parsed; a ZodError goes to the catch and the finally, valid data to
\* onSubmit.
handleSubmit ==
    /\ form.pc = "ready"
    /\ form.submits < MaxSubmits
    /\ LET parsed == schemaParse(form.values)
           f0 == [form EXCEPT !.submits = @ + 1, !.errors = NoErrors,
                              !.isSuccess = FALSE, !.settled = "none"] IN
       IF parsed.ok
       THEN form' = [f0 EXCEPT !.pc = "awaiting", !.isSubmitting = TRUE,
                               !.calledWith = <<parsed.data>>]
       ELSE form' = [f0 EXCEPT !.errors = formatErrors(parsed.issues),
                               !.isSubmitting = FALSE, !.calledWith = <<>>]

\* The promise of onSubmit settles: success is set if it resolved, the
\* error is logged if it rejected; the finally clears isSubmitting.
onSubmitSettles ==
    /\ form.pc = "awaiting"
    /\ \E resolved \in BOOLEAN :
         form' = [form EXCEPT
                     !.pc = "ready",
                     !.isSubmitting = FALSE,
                     !.isSuccess = IF resolved THEN TRUE ELSE @,
                     !.settled = IF resolved THEN "resolved" ELSE "rejected"]

\* ------------------------------------------------- predictions API
\* GET /api/predictions/recommendations, POST /api/predictions/apply and
\* /apply-custom (prediction routes lines 315-404) with Cache.getOrSet,
\* getScalingRecommendations, applyScalingRecommendation and scaleVMSS.
ApiRequests == 1..NumApiRequests
InstanceCounts == 0..(MaxInstances + 1)
CpuPredictions == {0, 30, 100, 150}

\* Math.ceil(a / b) and Math.floor(a / b) for a >= 0, b > 0.
Ceil(a, b) == (a + b - 1) \div b
Floor(a, b) == a \div b

\* getScalingRecommendations, the `scaling` part: currentInstances is the
\* capacity read, or CURRENT_INSTANCES when the read fails; the
\* recommendation follows the highest CPU prediction and is capped at twice
\* the current count and at least 1.
getScalingRecommendations(readOk, cap, maxCpuPrediction, epoch) ==
    LET currentInstances == IF readOk THEN cap ELSE CURRENT_INSTANCES
        byCpu ==
            IF maxCpuPrediction > CPU_THRESHOLD
            THEN Ceil(currentInstances * maxCpuPrediction, CPU_THRESHOLD)
            ELSE IF 2 * maxCpuPrediction < CPU_THRESHOLD /\ currentInstances > 1
            THEN Max(1, Floor(currentInstances * maxCpuPrediction * 10, CPU_THRESHOLD * 7))
            ELSE currentInstances
        recommendedInstances == Max(1, Min(byCpu, currentInstances * 2))
    IN [currentInstances |-> currentInstances,
        recommendedInstances |-> recommendedInstances,
        scaleOutRecommended |-> recommendedInstances > currentInstances,
        scaleInRecommended |-> recommendedInstances < currentInstances,
        epoch |-> epoch]

\* customScalingSchema: Joi.number().integer().min(1).max(100).required()
customScalingSchema(instanceCount) ==
    instanceCount >= JoiMinInstanceCount /\ instanceCount <= JoiMaxInstanceCount

\* The recommendation /apply-custom builds from the request body.
customRecommendation(currentInstances, instanceCount, epoch) ==
    [currentInstances |-> currentInstances,
     recommendedInstances |-> instanceCount,
     scaleOutRecommended |-> instanceCount > currentInstances,
     scaleInRecommended |-> instanceCount < currentInstances,
     epoch |-> epoch]

NoRecommendation ==
    [currentInstances |-> 0, recommendedInstances |-> 0,
     scaleOutRecommended |-> FALSE, scaleInRecommended |-> FALSE, epoch |-> 0]

IdleApiRequest ==
    [pc |-> "idle", kind |-> "none", rec |-> NoRecommendation, status |-> 0,
     answer |-> <<>>, since |-> 0, changeEpoch |-> 0]

\* `epoch` counts the capacity changes applied through the API and
\* `invalidated` is the last change whose cache invalidation has run; both
\* only label the recommendations.
ApiIdle ==
    [cached |-> <<>>, cpu |-> 0, epoch |-> 0, invalidated |-> 0,
     reqs |-> [r \in ApiRequests |-> IdleApiRequest]]

\* GET /recommendations up to the await in getOrSet: a cache hit answers at
\* once, a miss starts the computation.
GetRecommendations(r) ==
    /\ api.reqs[r].pc = "idle"
    /\ LET q == [api.reqs[r] EXCEPT !.kind = "get", !.since = api.invalidated] IN
       IF api.cached # <<>>
       THEN api' = [api EXCEPT !.reqs[r] =
                       [q EXCEPT !.pc = "done", !.status = 200, !.answer = api.cached]]
       ELSE api' = [api EXCEPT !.reqs[r] = [q EXCEPT !.pc = "computing"]]
    /\ UNCHANGED capacity

\* fn() of getOrSet: getScalingRecommendations reads the capacity.
ComputeRecommendations(r) ==
    /\ api.reqs[r].pc = "computing"
    /\ \E readOk \in BOOLEAN :
         api' = [api EXCEPT !.reqs[r].pc = "computed",
                            !.reqs[r].rec =
                                getScalingRecommendations(readOk, capacity, api.cpu, api.epoch)]
    /\ UNCHANGED capacity

\* `return this.set(key, value, ttl)` and the response.
SetAndAnswer(r) ==
    /\ api.reqs[r].pc = "computed"
    /\ api' = [api EXCEPT !.cached = <<api.reqs[r].rec>>,
                          !.reqs[r].pc = "done",
                          !.reqs[r].status = 200,
                          !.reqs[r].answer = <<api.reqs[r].rec>>]
    /\ UNCHANGED capacity

\* POST /apply: `await getScalingRecommendations()`.
Apply(r) ==
    /\ api.reqs[r].pc = "idle"
    /\ \E readOk \in BOOLEAN :
         api' = [api EXCEPT !.reqs[r] =
                     [api.reqs[r] EXCEPT
                         !.kind = "apply", !.pc = "applying",
                         !.rec = getScalingRecommendations(readOk, capacity, api.cpu,
                                                           api.epoch)]]
    /\ UNCHANGED capacity

\* POST /apply-custom: validateRequest, then `await getCurrentVMSSCapacity()`.
ApplyCustom(r) ==
    /\ api.reqs[r].pc = "idle"
    /\ \E instanceCount \in InstanceCounts, readOk \in BOOLEAN :
         LET q == [api.reqs[r] EXCEPT !.kind = "applyCustom"] IN
         IF ~customScalingSchema(instanceCount)
         THEN api' = [api EXCEPT !.reqs[r] = [q EXCEPT !.pc = "done", !.status = 400]]
         ELSE IF ~readOk
         THEN api' = [api EXCEPT !.reqs[r] = [q EXCEPT !.pc = "done", !.status = 500]]
         ELSE api' = [api EXCEPT !.reqs[r] =
                         [q EXCEPT !.pc = "applying",
                                   !.rec = customRecommendation(capacity, instanceCount,
                                                                api.epoch)]]
    /\ UNCHANGED capacity

\* scaleVMSS(capacity): nothing to do when the scale set already has the
\* requested capacity, else the capacity is written as given.
scaleVMSS(currentCapacity, requested) ==
    IF currentCapacity = requested THEN currentCapacity ELSE requested

\* applyScalingRecommendation: no action when neither direction is
\* recommended (the route then deletes the cache entry at once), else
\* scaleVMSS; an error of the backend goes to next(error).
ApplyScalingRecommendation(r) ==
    /\ api.reqs[r].pc = "applying"
    /\ LET q == api.reqs[r] IN
       IF ~q.rec.scaleOutRecommended /\ ~q.rec.scaleInRecommended
       THEN /\ api' = [api EXCEPT !.cached = <<>>,
                                  !.reqs[r].pc = "done", !.reqs[r].status = 200]
            /\ UNCHANGED capacity
       ELSE \E ok \in BOOLEAN :
            IF ~ok
            THEN /\ api' = [api EXCEPT !.reqs[r].pc = "done", !.reqs[r].status = 500]
                 /\ UNCHANGED capacity
            ELSE LET target == scaleVMSS(capacity, q.rec.recommendedInstances)
                     changed == IF target # capacity THEN api.epoch + 1 ELSE api.epoch IN
                 /\ capacity' = target
                 /\ api' = [api EXCEPT !.epoch = changed,
                                       !.reqs[r].pc = "invalidating",
                                       !.reqs[r].changeEpoch = changed]

\* `predictionsCache.delete('scaling:recommendations')` and the response.
Invalidate(r) ==
    /\ api.reqs[r].pc = "invalidating"
    /\ api' = [api EXCEPT !.cached = <<>>,
                          !.invalidated = Max(@, api.reqs[r].changeEpoch),
                          !.reqs[r].pc = "done",
                          !.reqs[r].status = 200]
    /\ UNCHANGED capacity

\* The TTL of the cache entry passes: the next get finds nothing.
CacheExpires ==
    /\ api.cached # <<>>
    /\ api' = [api EXCEPT !.cached = <<>>]
    /\ UNCHANGED capacity

\* ------------------------------------------------- rate limiter
\* rateLimit(options) (middleware lines 189-244): per IP the times of the
\* requests let through, kept for one window.  Time is counted in ticks.
Ips == {"10.0.0.1", "10.0.0.2"}
WindowOptions == {1, 2}
MaxOptions == {1, 2}

\* `requests[ip].filter(time => time > now - windowMs)`
WithinWindow(times, t, windowMs) ==
    Filter(times, {time \in Members(times) : time > t - windowMs})

\* Mutant of OverLimit: one request more is let through.
OverLimit_OffByOne(count, max) == count > max

\* `if (requests[ip].length >= max)`
OverLimit(count, max) == count >= max

LimiterIdle ==
    [windowMs |-> 1, max |-> 1, now |-> 0, requests |-> [ip \in {} |-> <<>>],
     log |-> <<>>]

\* `if (!requests[ip]) requests[ip] = []`
TimesOf(requests, ip) == IF ip \in DOMAIN requests THEN requests[ip] ELSE <<>>

\* The middleware handles one request of `ip`: 429 when the window is full,
\* else the time is recorded and next() is called.
LimitRequest(ip) ==
    /\ Len(limiter.log) < MaxRequests
    /\ LET recent == WithinWindow(TimesOf(limiter.requests, ip), limiter.now,
                                  limiter.windowMs)
           over == OverLimit(Len(recent), limiter.max)
           kept == IF over THEN recent ELSE Append(recent, limiter.now) IN
       limiter' = [limiter EXCEPT
                      !.requests = [i \in (DOMAIN @) \cup {ip} |->
                                       IF i = ip THEN kept ELSE @[i]],
                      !.log = Append(@, [ip |-> ip, time |-> limiter.now,
                                         passed |-> ~over])]

\* The setInterval callback: old times are dropped and empty entries deleted.
Cleanup ==
    /\ LET filtered == [i \in DOMAIN limiter.requests |->
                           WithinWindow(limiter.requests[i], limiter.now, limiter.windowMs)]
           left == {i \in DOMAIN filtered : filtered[i] # <<>>} IN
       /\ [i \in left |-> filtered[i]] # limiter.requests
       /\ limiter' = [limiter EXCEPT !.requests = [i \in left |-> filtered[i]]]

\* Date.now() moves on.
LimiterTick ==
    /\ limiter.now < MaxClock
    /\ limiter' = [limiter EXCEPT !.now = @ + 1]

\* ------------------------------------------------- initial admin setup
\* POST /api/auth/setup (auth routes lines 214-244) against the users
\* collection, a set of e-mail addresses (the schema's unique index).
SetupRequests == 1..NumSetupRequests
BodyEmails == {"", "root@example.com", "not an address"}
ExistingUsers == {{}, {"user@example.com"}}

\* `req.body.email || 'admin@example.com'`
AdminEmail(bodyEmail) == IF bodyEmail = "" THEN "admin@example.com" ELSE bodyEmail

\* The validator of the e-mail field of userSchema.
ValidEmail(email) == email \in {"admin@example.com", "root@example.com", "user@example.com"}

IdleSetupRequest == [pc |-> "idle", email |-> "", status |-> 0]

SetupIdle == [users |-> {}, reqs |-> [r \in SetupRequests |-> IdleSetupRequest]]

\* `await User.countDocuments()` and the check of the count.
CountUsers(r) ==
    /\ setup.reqs[r].pc = "idle"
    /\ \E bodyEmail \in BodyEmails :
         LET q == [setup.reqs[r] EXCEPT !.email = AdminEmail(bodyEmail)] IN
         IF Cardinality(setup.users) > 0
         THEN setup' = [setup EXCEPT !.reqs[r] = [q EXCEPT !.pc = "done", !.status = 400]]
         ELSE setup' = [setup EXCEPT !.reqs[r] = [q EXCEPT !.pc = "creating"]]

\* `await adminUser.save()`: a validation error or a duplicate e-mail
\* throws and is answered with 500; else the user is inserted.
SaveAdmin(r) ==
    /\ setup.reqs[r].pc = "creating"
    /\ LET q == setup.reqs[r] IN
       IF ~ValidEmail(q.email) \/ q.email \in setup.users
       THEN setup' = [setup EXCEPT !.reqs[r].pc = "done", !.reqs[r].status = 500]
       ELSE setup' = [setup EXCEPT !.users = @ \cup {q.email},
                                   !.reqs[r].pc = "done",
                                   !.reqs[r].status = 201]

\* Every web component before its first request.
WebIdle ==
    /\ auth = AuthIdle
    /\ form = FormIdle
    /\ api = ApiIdle
    /\ limiter = LimiterIdle
    /\ setup = SetupIdle

\* ------------------------------------------------- recommender service
\* ollamaService.js: getScalingRecommendation and makeApiCallWithRetry.
Models == {"llama3:8b", "mistral:7b"}
Prompts == {"prompt A", "prompt B"}
SystemPrompts == {"DEFAULT_SYSTEM_PROMPT", "custom system prompt"}
OllamaRetryCounts == 0..MaxOllamaRetryCount

\* The service between two calls, with its module-level settings.
OllamaIdle(model, fallback, retryCount) ==
    [OLLAMA_MODEL |-> model, OLLAMA_FALLBACK_MODEL |-> fallback,
     OLLAMA_RETRY_COUNT |-> retryCount, OLLAMA_RETRY_DELAY |-> 1000,
     pc |-> "idle", prompt |-> "", systemPrompt |-> "", modelName |-> "",
     fallbackModel |-> "", attempt |-> 0, depth |-> 0, calls |-> <<>>,
     result |-> <<>>, threw |-> FALSE]

\* The settings when the environment sets none of them.
DefaultOllama == OllamaIdle("llama3:8b", "mistral:7b", 3)

\* `systemPrompt = DEFAULT_SYSTEM_PROMPT`: the default parameter value
\* replaces undefined.
ResolveSystemPrompt(given) ==
    IF given = <<>> THEN "DEFAULT_SYSTEM_PROMPT" ELSE given[1]

\* `modelOverride || OLLAMA_MODEL`
ResolveModel(modelOverride, model) ==
    IF modelOverride = <<>> \/ modelOverride[1] = "" THEN model ELSE modelOverride[1]

\* Mutant of TriesFallback: the fallback is tried whatever model just failed.
TriesFallback_Always(modelName, fallbackModel) == TRUE

\* `if (modelName !== fallbackModel)`
TriesFallback(modelName, fallbackModel) == modelName # fallbackModel

\* Mutant of FallbackSystemPrompt: the fallback call leaves the system prompt
\* to its default.
FallbackSystemPrompt_Default(systemPrompt) == ResolveSystemPrompt(<<>>)

\* The system prompt argument of the recursive call:
\* `getScalingRecommendation(prompt, systemPrompt, fallbackModel)`
FallbackSystemPrompt(systemPrompt) == systemPrompt

\* What becomes of a response that arrived: `response.data.response` missing,
\* text that no parsing attempt accepts, an object validateRecommendation
\* rejects, or a recommendation.
ResponseOutcome(kind, obj) ==
    IF kind = "empty" THEN "missing"
    ELSE IF kind = "garbage" THEN "unparseable"
    ELSE IF ~validateRecommendation(obj) THEN "invalid"
    ELSE "valid"

\* One activation of getScalingRecommendation for `model`, up to its first
\* await: the payload is built and makeApiCallWithRetry posts it.  With a
\* retry count below 1 the loop body never runs, `throw lastError` throws
\* null, and the catch block's `error.message` throws out of the function.
BeginCall(o, model) ==
    LET call == [model |-> model, prompt |-> o.prompt, system |-> o.systemPrompt,
                 attempts |-> 0, delays |-> <<>>, outcome |-> "pending",
                 value |-> <<>>]
        o1 == [o EXCEPT !.modelName = model, !.fallbackModel = o.OLLAMA_FALLBACK_MODEL,
                        !.depth = @ + 1, !.attempt = 1, !.calls = Append(@, call)]
    IN IF 1 <= o.OLLAMA_RETRY_COUNT
       THEN [o1 EXCEPT !.pc = "post"]
       ELSE [o1 EXCEPT !.pc = "returned", !.threw = TRUE,
                       !.calls[Len(o1.calls)].outcome = "noAttempt"]

\* The model call in flight has failed with `outcome`: the fallback model is
\* called, or null is returned.
AfterFailure(o, outcome) ==
    LET o1 == [o EXCEPT !.calls[Len(o.calls)].outcome = outcome] IN
    IF TriesFallback(o1.modelName, o1.fallbackModel) /\ o1.depth < MaxDepth
    THEN BeginCall([o1 EXCEPT !.systemPrompt = FallbackSystemPrompt(@)],
                   ResolveModel(<<o1.fallbackModel>>, o1.OLLAMA_MODEL))
    ELSE [o1 EXCEPT !.pc = "returned", !.result = <<>>]

\* The engine (or the monitor) calls getScalingRecommendation.
getScalingRecommendation ==
    /\ ollama.pc = "idle"
    /\ \E prompt \in Prompts,
          systemPrompt \in {<<>>} \cup {<<sp>> : sp \in SystemPrompts},
          modelOverride \in {<<>>, <<"">>} \cup {<<m>> : m \in Models} :
         ollama' = BeginCall([ollama EXCEPT !.prompt = prompt,
                                            !.systemPrompt = ResolveSystemPrompt(systemPrompt)],
                             ResolveModel(modelOverride, ollama.OLLAMA_MODEL))

\* Mutant of RetriesPost: a transport error is final at once.
RetriesPost_Never(attempt, retryCount) == FALSE

\* `if (attempt < OLLAMA_RETRY_COUNT)` together with the loop condition: after
\* a failed post another one follows.
RetriesPost(attempt, retryCount) == attempt < retryCount

\* One `await axios.post(...)` of makeApiCallWithRetry settles, and the code
\* runs on to the next await or to the return.
Post ==
    /\ ollama.pc = "post"
    /\ \E kind \in {"error", "empty", "garbage", "json"}, obj \in ParsedObjects :
         LET o == [ollama EXCEPT !.calls[Len(ollama.calls)].attempts = @ + 1] IN
         IF kind = "error"
         THEN IF RetriesPost(o.attempt, o.OLLAMA_RETRY_COUNT)
              THEN ollama' = [o EXCEPT !.pc = "delay"]
              ELSE ollama' = AfterFailure(o, "error")
         ELSE IF ResponseOutcome(kind, obj) = "valid"
         THEN ollama' = [o EXCEPT !.pc = "returned", !.result = <<obj>>,
                                  !.calls[Len(o.calls)].outcome = "valid",
                                  !.calls[Len(o.calls)].value = <<obj>>]
         ELSE ollama' = AfterFailure(o, ResponseOutcome(kind, obj))

\* `await new Promise(resolve => setTimeout(resolve, delay))`, then the next
\* iteration of the retry loop.
RetryDelay ==
    /\ ollama.pc = "delay"
    /\ ollama' = [ollama EXCEPT
                     !.pc = "post", !.attempt = @ + 1,
                     !.calls[Len(ollama.calls)].delays =
                         Append(@, ollama.OLLAMA_RETRY_DELAY * ollama.attempt)]

\* The caller has the result; the service is ready for the next call.
ReturnRecommendation ==
    /\ ollama.pc = "returned"
    /\ ollama' = OllamaIdle(ollama.OLLAMA_MODEL, ollama.OLLAMA_FALLBACK_MODEL,
                            ollama.OLLAMA_RETRY_COUNT)

\* The decision engine before its first cycle, under one configuration.
EngineAtRestFor(s) ==
    /\ script = s
    /\ DRY_RUN = TRUE
    /\ MIN_INSTANCES = 2
    /\ MAX_INSTANCES = 3
    /\ RETRY_COUNT = 1
    /\ SCALING_COOLDOWN = 2
    /\ CONFIDENCE_THRESHOLD = 70
    /\ lastScalingOperationTime = 0
    /\ isScalingInProgress = FALSE
    /\ now = 60 * 1000
    /\ capacity = 1
    /\ lastSuccessAt = 0
    /\ cycles = [i \in Invocations |-> IdleCycle]

EngineAtRest == EngineAtRestFor("azure")

engine == <<config, lastScalingOperationTime, isScalingInProgress, now,
            capacity, lastSuccessAt, cycles>>

\* The service on its own, under every setting; the engine stands still.
OllamaInit ==
    /\ EngineAtRest
    /\ parser = ParserIdle
    /\ trend = TrendIdle
    /\ builder = PromptIdle
    /\ WebIdle
    /\ \E model \in Models, fallback \in Models, retryCount \in OllamaRetryCounts :
         ollama = OllamaIdle(model, fallback, retryCount)

OllamaNext ==
    /\ \/ getScalingRecommendation
       \/ Post
       \/ RetryDelay
       \/ ReturnRecommendation
    /\ UNCHANGED <<engine, parser, trend, builder, web>>

\* A request that was posted settles (OLLAMA_REQUEST_TIMEOUT at the latest)
\* and a timer that was set fires.
OllamaSpec ==
    /\ OllamaInit
    /\ [][OllamaNext]_vars
    /\ WF_vars(OllamaNext /\ ollama.pc \in {"post", "delay"})

\* The parser on its own, over every response text of ResponseShapes.
ParserInit ==
    /\ EngineAtRest
    /\ ollama = DefaultOllama
    /\ trend = TrendIdle
    /\ builder = PromptIdle
    /\ WebIdle
    /\ \E shape \in ResponseShapes :
         parser = [pc |-> "received", shape |-> shape, text |-> Render(shape),
                   result |-> NoResult]

ParserNext == Parse /\ UNCHANGED <<engine, ollama, trend, builder, web>>

ParserSpec == ParserInit /\ [][ParserNext]_vars

\* The summary on its own, over every series and both scripts.
TrendInit ==
    /\ \E s \in Scripts : EngineAtRestFor(s)
    /\ ollama = DefaultOllama
    /\ parser = ParserIdle
    /\ builder = PromptIdle
    /\ WebIdle
    /\ \E samples \in Series :
         trend = [pc |-> "collected", samples |-> samples,
                  summary |-> Summary(<<>>, script)]

TrendNext == Summarise /\ UNCHANGED <<engine, ollama, parser, builder, web>>

TrendSpec == TrendInit /\ [][TrendNext]_vars

\* Prompt building on its own, over every template and both scripts.
PromptInit ==
    /\ \E s \in Scripts : EngineAtRestFor(s)
    /\ ollama = DefaultOllama
    /\ parser = ParserIdle
    /\ trend = TrendIdle
    /\ WebIdle
    /\ \E file \in PromptFileStates, template \in Templates :
         builder = [pc |-> "configured", file |-> file, template |-> template,
                   built |-> [threw |-> FALSE, text |-> <<>>]]

PromptNext == constructOllamaPrompt /\ UNCHANGED <<engine, ollama, parser, trend, web>>

PromptSpec == PromptInit /\ [][PromptNext]_vars

\* The engine and its services, untouched by the web components.
BackendAtRest ==
    /\ EngineAtRest
    /\ ollama = DefaultOllama
    /\ parser = ParserIdle
    /\ trend = TrendIdle
    /\ builder = PromptIdle

backend == <<engine, ollama, parser, trend, builder>>

\* Refresh requests on their own; the handlers interleave at their awaits.
RefreshInit ==
    /\ BackendAtRest
    /\ auth = AuthIdle
    /\ form = FormIdle
    /\ api = ApiIdle
    /\ limiter = LimiterIdle
    /\ setup = SetupIdle

RefreshNext ==
    /\ \/ \E r \in RefreshRequests : FindUser(r) \/ Rotate(r) \/ Save(r)
       \/ Expire
    /\ UNCHANGED <<backend, form, api, limiter, setup>>

RefreshSpec == RefreshInit /\ [][RefreshNext]_vars

\* The form hook on its own: edits and submissions in any order.
FormInit ==
    /\ BackendAtRest
    /\ auth = AuthIdle
    /\ form = FormIdle
    /\ api = ApiIdle
    /\ limiter = LimiterIdle
    /\ setup = SetupIdle

FormNext ==
    /\ handleChange \/ handleSubmit \/ onSubmitSettles
    /\ UNCHANGED <<backend, auth, api, limiter, setup>>

FormSpec == FormInit /\ [][FormNext]_vars

\* The predictions API on its own, over every CPU prediction; the requests
\* interleave at their awaits and act on the capacity of the scale set.
ApiInit ==
    /\ BackendAtRest
    /\ auth = AuthIdle
    /\ form = FormIdle
    /\ limiter = LimiterIdle
    /\ setup = SetupIdle
    /\ \E cpu \in CpuPredictions : api = [ApiIdle EXCEPT !.cpu = cpu]

ApiNext ==
    /\ \/ \E r \in ApiRequests :
            \/ GetRecommendations(r) \/ ComputeRecommendations(r) \/ SetAndAnswer(r)
            \/ Apply(r) \/ ApplyCustom(r)
            \/ ApplyScalingRecommendation(r) \/ Invalidate(r)
       \/ CacheExpires
    /\ UNCHANGED <<config, lastScalingOperationTime, isScalingInProgress, now,
                   lastSuccessAt, cycles, ollama, parser, trend, builder, auth, form,
                   limiter, setup>>

ApiSpec == ApiInit /\ [][ApiNext]_vars

\* The rate limiter on its own, under every option; it handles one request
\* at a time.
LimiterInit ==
    /\ BackendAtRest
    /\ auth = AuthIdle
    /\ form = FormIdle
    /\ api = ApiIdle
    /\ setup = SetupIdle
    /\ \E windowMs \in WindowOptions, max \in MaxOptions :
         limiter = [LimiterIdle EXCEPT !.windowMs = windowMs, !.max = max]

LimiterNext ==
    /\ \/ \E ip \in Ips : LimitRequest(ip)
       \/ Cleanup
       \/ LimiterTick
    /\ UNCHANGED <<backend, auth, form, api, setup>>

LimiterSpec == LimiterInit /\ [][LimiterNext]_vars

\* Setup requests on their own, on an empty collection or one with a user.
SetupInit ==
    /\ BackendAtRest
    /\ auth = AuthIdle
    /\ form = FormIdle
    /\ api = ApiIdle
    /\ limiter = LimiterIdle
    /\ \E users \in ExistingUsers : setup = [SetupIdle EXCEPT !.users = users]

SetupNext ==
    /\ \E r \in SetupRequests : CountUsers(r) \/ SaveAdmin(r)
    /\ UNCHANGED <<backend, auth, form, api, limiter>>

SetupSpec == SetupInit /\ [][SetupNext]_vars

Init ==
    /\ script \in Scripts
    /\ DRY_RUN \in BOOLEAN
    /\ \E mm \in MinMaxChoices : MIN_INSTANCES = mm[1] /\ MAX_INSTANCES = mm[2]
    /\ RETRY_COUNT \in RetryCounts
    /\ SCALING_COOLDOWN \in CooldownChoices
    /\ CONFIDENCE_THRESHOLD \in ThresholdChoices
    /\ lastScalingOperationTime = 0
    /\ isScalingInProgress = FALSE
    /\ now = 60 * 1000
    /\ capacity \in Capacities
    /\ lastSuccessAt = 0
    /\ cycles = [i \in Invocations |-> IdleCycle]
    /\ ollama = DefaultOllama
    /\ parser = ParserIdle
    /\ trend = TrendIdle
    /\ builder = PromptIdle
    /\ WebIdle

\* Wall-clock time passes, one minute at a time.
Tick ==
    /\ now < MaxTicks * 60 * 1000
    /\ now' = now + 60 * 1000
    /\ UNCHANGED <<config, services, lastScalingOperationTime, isScalingInProgress,
                   capacity, lastSuccessAt, cycles>>

\* Mutant of SkipInProgress: the guard sits inside the try, so the finally
\* block clears the flag of the cycle that is still running.
SkipInProgress_ClearsFlag(i) ==
    /\ MayInvoke(i)
    /\ isScalingInProgress
    /\ cycles' = [cycles EXCEPT ![i] = Finish(@, "AlreadyInProgress")]
    /\ isScalingInProgress' = FALSE
    /\ UNCHANGED <<config, services, lastScalingOperationTime, now, capacity, lastSuccessAt>>

\* `if (isScalingInProgress) return;` -- before the try, so the finally block
\* does not run.
SkipInProgress(i) ==
    /\ MayInvoke(i)
    /\ isScalingInProgress
    /\ cycles' = [cycles EXCEPT ![i] = Finish(@, "AlreadyInProgress")]
    /\ UNCHANGED <<config, services, lastScalingOperationTime, isScalingInProgress, now,
                   capacity, lastSuccessAt>>

\* The flag is set and the cooldown checked with no await in between; the
\* first await is the read of the current state.
Enter(i) ==
    /\ MayInvoke(i)
    /\ ~isScalingInProgress
    /\ IF isInCooldown(lastScalingOperationTime, now, SCALING_COOLDOWN)
       THEN /\ cycles' = [cycles EXCEPT ![i] = Finish(@, "InCooldown")]
            /\ isScalingInProgress' = FALSE
       ELSE /\ cycles' = [cycles EXCEPT ![i].pc = "getState"]
            /\ isScalingInProgress' = TRUE
    /\ UNCHANGED <<config, services, lastScalingOperationTime, now, capacity, lastSuccessAt>>

\* await getCurrentVmssState / getInstanceGroupState: returns the capacity or
\* throws; a throw is caught by checkAndScale's catch, then finally.
GetState(i) ==
    /\ cycles[i].pc = "getState"
    /\ \E ok \in BOOLEAN :
         IF ok
         THEN /\ cycles' = [cycles EXCEPT ![i].pc = "loadMetrics",
                                          ![i].currentCapacity = capacity]
              /\ UNCHANGED isScalingInProgress
         ELSE /\ cycles' = [cycles EXCEPT ![i] = Thrown(@, "getState")]
              /\ isScalingInProgress' = FlagAfterThrow("getState", isScalingInProgress)
    /\ UNCHANGED <<config, services, lastScalingOperationTime, now, capacity, lastSuccessAt>>

\* await loadLatestMetrics(): null or a metrics object; with metrics the
\* prompt is built in the same turn (constructOllamaPrompt, which may throw).
LoadMetrics(i) ==
    /\ cycles[i].pc = "loadMetrics"
    /\ \E kind \in SnapshotKinds, promptBuilt \in BOOLEAN :
         LET c0 == [cycles[i] EXCEPT !.snapshot = kind] IN
         IF loadLatestMetrics(kind, script) = "null"
         THEN /\ cycles' = [cycles EXCEPT ![i] = Finish(c0, "NoMetrics")]
              /\ isScalingInProgress' = FALSE
         ELSE IF promptBuilt
         THEN /\ cycles' = [cycles EXCEPT ![i] = [c0 EXCEPT !.pc = "recommend"]]
              /\ UNCHANGED isScalingInProgress
         ELSE /\ cycles' = [cycles EXCEPT ![i] = Thrown(c0, "prompt")]
              /\ isScalingInProgress' = FlagAfterThrow("prompt", isScalingInProgress)
    /\ UNCHANGED <<config, services, lastScalingOperationTime, now, capacity, lastSuccessAt>>

\* Mutant of MissingRecommendation: the null check is dropped.
MissingRecommendation_TypeofOnly(res) ==
    res # <<>> /\ res[1].recommended_instances = <<>>

\* `if (!recommendation || typeof recommendation.recommended_instances !== 'number')`
MissingRecommendation(res) ==
    res = <<>> \/ res[1].recommended_instances = <<>>

\* Mutant of BelowThreshold: the confidence gate is missing.
BelowThreshold_Never(r, threshold) == FALSE

\* `if (confidence < CONFIDENCE_THRESHOLD)` with confidence = recommendation.confidence || 1.0
BelowThreshold(r, threshold) == EffectiveConfidence(r) < threshold

\* Mutant of NeedsScaling: the no-op check is missing.
NeedsScaling_Always(target, current) == TRUE

\* `if (recommendedCapacity !== currentCapacity)`
NeedsScaling(target, current) == target # current

\* Mutant of UpdatedCapacity: the vmss object is sent back as it was read.
UpdatedCapacity_AsRead(c) == c.currentCapacity

\* The capacity of the object handed to the backend:
\* `{ ...vmss, sku: { ...vmss.sku, capacity: targetCapacity } }`
UpdatedCapacity(c) == c.targetCapacity

\* Mutant of SimulateOnly: the dry-run flag is not consulted.
SimulateOnly_Never(dry) == FALSE

\* `if (DRY_RUN)` at the head of executeScalingOperation
SimulateOnly(dry) == dry

\* Whether the dry-run branch records the simulated scaling time:
\* schedule-scaling.js does (line 401), the multi-cloud script returns
\* {success: true, dryRun: true} without touching lastScalingTimestamp.
DryRunRecordsTime(s) == s = "azure"

\* Mutant of TimeAfterFailure: the time is recorded on failure too.
TimeAfterFailure_Records(last, t) == t

\* The value of lastScalingOperationTime after the last attempt failed:
\* "Don't update lastScalingOperationTime on failure".
TimeAfterFailure(last, t) == last

\* Whether a failed backend call is retried: schedule-scaling.js loops over
\* attempt <= RETRY_COUNT, the multi-cloud script makes one call and throws.
RetriesBackend(s) == s = "azure"

\* await ollamaService.getScalingRecommendation(...), then everything up to
\* the first await inside executeScalingOperation.
Recommend(i) ==
    /\ cycles[i].pc = "recommend"
    /\ \E res \in RecommenderResults :
         LET c0 == [cycles[i] EXCEPT !.recommenderCalls = @ + 1, !.recommendation = res]
         IN
         IF MissingRecommendation(res)
         THEN /\ cycles' = [cycles EXCEPT ![i] = Finish(c0, "NoRecommendation")]
              /\ isScalingInProgress' = FALSE
              /\ UNCHANGED <<lastScalingOperationTime, lastSuccessAt>>
         ELSE IF res = <<>>      \* reading a property of null: TypeError
         THEN /\ cycles' = [cycles EXCEPT ![i] = Thrown(c0, "recommend")]
              /\ isScalingInProgress' = FlagAfterThrow("recommend", isScalingInProgress)
              /\ UNCHANGED <<lastScalingOperationTime, lastSuccessAt>>
         ELSE IF BelowThreshold(res[1], CONFIDENCE_THRESHOLD)
         THEN /\ cycles' = [cycles EXCEPT ![i] = Finish(c0, "LowConfidence")]
              /\ isScalingInProgress' = FALSE
              /\ UNCHANGED <<lastScalingOperationTime, lastSuccessAt>>
         ELSE
         LET recommendedCapacity == RecommendedCapacity(res[1], MIN_INSTANCES, MAX_INSTANCES)
             c1 == [c0 EXCEPT !.targetCapacity = recommendedCapacity]
         IN
         IF ~NeedsScaling(recommendedCapacity, c0.currentCapacity)
         THEN /\ cycles' = [cycles EXCEPT ![i] = Finish(c1, "NoChangeNeeded")]
              /\ isScalingInProgress' = FALSE
              /\ UNCHANGED <<lastScalingOperationTime, lastSuccessAt>>
         ELSE IF SimulateOnly(DRY_RUN)
         THEN /\ cycles' = [cycles EXCEPT ![i] = Finish(c1, "Succeeded")]
              /\ isScalingInProgress' = FALSE
              /\ lastScalingOperationTime' =
                     IF DryRunRecordsTime(script) THEN now ELSE lastScalingOperationTime
              /\ lastSuccessAt' = now
         ELSE IF RetriesBackend(script) /\ ~(1 <= RETRY_COUNT)
         THEN /\ cycles' = [cycles EXCEPT ![i] = Thrown(c1, "execute")]
              /\ isScalingInProgress' = FlagAfterThrow("execute", isScalingInProgress)
              /\ lastScalingOperationTime' = TimeAfterFailure(lastScalingOperationTime, now)
              /\ UNCHANGED lastSuccessAt
         ELSE /\ cycles' = [cycles EXCEPT ![i] = [c1 EXCEPT !.pc = "execute", !.attempt = 1]]
              /\ UNCHANGED <<isScalingInProgress, lastScalingOperationTime, lastSuccessAt>>
    /\ UNCHANGED <<config, services, now, capacity>>

\* One capacity-change call: beginCreateOrUpdate + pollUntilDone (azure),
\* beginUpdateAndWait or scaleInstanceGroup (multicloud).  A call that
\* completes is taken as success whatever capacity it reports
\* (schedule-scaling.js lines 432-441); a call that throws leaves the
\* capacity as it was.
Execute(i) ==
    /\ cycles[i].pc = "execute"
    /\ LET c0 == [cycles[i] EXCEPT !.backendCalls = @ + 1,
                                   !.requested = UpdatedCapacity(cycles[i])] IN
       \E ok \in BOOLEAN :
         IF ok
         THEN /\ \E reported \in {c0.requested, capacity} : capacity' = reported
              /\ cycles' = [cycles EXCEPT ![i] = Finish(c0, "Succeeded")]
              /\ lastScalingOperationTime' = now
              /\ lastSuccessAt' = now
              /\ isScalingInProgress' = FALSE
         ELSE IF RetriesBackend(script)
         THEN /\ cycles' = [cycles EXCEPT ![i] =
                     [c0 EXCEPT !.pc = "backoff", !.failedAttempts = @ + 1]]
              /\ UNCHANGED <<capacity, lastScalingOperationTime, lastSuccessAt,
                             isScalingInProgress>>
         ELSE /\ cycles' = [cycles EXCEPT ![i] =
                     Thrown([c0 EXCEPT !.failedAttempts = @ + 1], "execute")]
              /\ isScalingInProgress' = FlagAfterThrow("execute", isScalingInProgress)
              /\ lastScalingOperationTime' = TimeAfterFailure(lastScalingOperationTime, now)
              /\ UNCHANGED <<capacity, lastSuccessAt>>
    /\ UNCHANGED <<config, services, now>>

\* Mutant of MayRetry: the loop bound is off by one.
MayRetry_OffByOne(attempt, retryCount) == attempt <= retryCount + 1

\* The loop condition `attempt <= RETRY_COUNT && !success` after attempt++.
MayRetry(attempt, retryCount) == attempt <= retryCount

\* await setTimeout(min(3000 * attempt, 15000)) in the catch of a failed
\* attempt, then attempt++ and the loop condition; when the loop ends without
\* success the error is thrown to checkAndScale's catch.
Backoff(i) ==
    /\ cycles[i].pc = "backoff"
    /\ LET c0 == [cycles[i] EXCEPT !.attempt = @ + 1] IN
       IF MayRetry(c0.attempt, RETRY_COUNT)
       THEN /\ cycles' = [cycles EXCEPT ![i] = [c0 EXCEPT !.pc = "execute"]]
            /\ UNCHANGED <<isScalingInProgress, lastScalingOperationTime>>
       ELSE /\ cycles' = [cycles EXCEPT ![i] = Thrown(c0, "execute")]
            /\ isScalingInProgress' = FlagAfterThrow("execute", isScalingInProgress)
            /\ lastScalingOperationTime' = TimeAfterFailure(lastScalingOperationTime, now)
    /\ UNCHANGED <<config, services, now, capacity, lastSuccessAt>>

\* The caller takes the (undefined) return value; the invocation slot is free
\* for the next call of checkAndScale in the same process.
Return(i) ==
    /\ cycles[i].pc = "done"
    /\ cycles' = [cycles EXCEPT ![i] = IdleCycle]
    /\ UNCHANGED <<config, services, lastScalingOperationTime, isScalingInProgress, now,
                   capacity, lastSuccessAt>>

\* main: `await checkAndScale(...)` has returned, process.exit(0); the next
\* scheduled run is a new process whose module-level state starts afresh.
ProcessExit ==
    /\ \A i \in Invocations : ~Running(i)
    /\ \E i \in Invocations : cycles[i].pc = "done"
    /\ lastScalingOperationTime' = 0
    /\ isScalingInProgress' = FALSE
    /\ cycles' = [i \in Invocations |-> IdleCycle]
    /\ UNCHANGED <<config, services, now, capacity, lastSuccessAt>>

checkAndScale(i) ==
    \/ SkipInProgress(i)
    \/ Enter(i)
    \/ GetState(i)
    \/ LoadMetrics(i)
    \/ Recommend(i)
    \/ Execute(i)
    \/ Backoff(i)

Next ==
    \/ Tick
    \/ \E i \in Invocations : checkAndScale(i)
    \/ \E i \in Invocations : Return(i)
    \/ ProcessExit

Spec == Init /\ [][Next]_vars

TypeOK ==
    /\ script \in Scripts
    /\ DRY_RUN \in BOOLEAN
    /\ isScalingInProgress \in BOOLEAN
    /\ now \in 1..(MaxTicks * 60 * 1000)
    /\ lastScalingOperationTime \in 0..now
    /\ capacity \in Nat

\* ---------------------------------------------------------------- claims
Done(i) == cycles[i].pc = "done"

\* An invocation of checkAndScale happens in this step.
Invoked(i) == cycles[i].pc = "idle" /\ cycles'[i].pc # "idle"

\* Cycle i ends as a (real or simulated) scaling action in this step.
Succeeds(i) == cycles[i].outcome # "Succeeded" /\ cycles'[i].outcome = "Succeeded"

\* C1: at most one cycle is past the re-entrancy guard at any time, and an
\* invocation made while another cycle is still running ends at once as
\* AlreadyInProgress, having called neither the recommender nor the backend
\* and having changed neither the in-progress flag nor the cooldown state.
C1_SingleCycleInFlight ==
    /\ [](Cardinality({i \in Invocations : Running(i)}) <= 1)
    /\ [][\A i \in Invocations :
            (Invoked(i) /\ \E j \in Invocations \ {i} : Running(j)) =>
                /\ cycles'[i].pc = "done"
                /\ cycles'[i].outcome = "AlreadyInProgress"
                /\ cycles'[i].recommenderCalls = 0
                /\ cycles'[i].backendCalls = 0
                /\ isScalingInProgress' = isScalingInProgress
                /\ lastScalingOperationTime' = lastScalingOperationTime
                /\ capacity' = capacity]_vars

C1_Witness ==
    \E i, j \in Invocations :
        /\ i # j
        /\ Done(i) /\ cycles[i].outcome = "AlreadyInProgress"
        /\ cycles[j].pc = "execute"

\* C2: a cycle started while lastScalingOperationTime is set and less than
\* the cooldown ago ends at once as InCooldown; the recommender and the
\* backend are not called and nothing else changes.
C2_CooldownSkips ==
    [][\A i \in Invocations :
         (/\ Invoked(i)
          /\ lastScalingOperationTime # 0
          /\ now - lastScalingOperationTime < SCALING_COOLDOWN * 60 * 1000) =>
             /\ cycles'[i].pc = "done"
             /\ cycles'[i].outcome = "InCooldown"
             /\ cycles'[i].recommenderCalls = 0
             /\ cycles'[i].backendCalls = 0
             /\ capacity' = capacity
             /\ lastScalingOperationTime' = lastScalingOperationTime]_vars

C2_Witness ==
    \E i \in Invocations :
        /\ Done(i) /\ cycles[i].outcome = "InCooldown"
        /\ now > lastScalingOperationTime

\* C3: between two scaling actions (real or simulated in a dry run) on the
\* target at least the cooldown elapses, whether the cycles run in one
\* process or in separately scheduled processes.
C3_CooldownBetweenActions ==
    [][(\E i \in Invocations : Succeeds(i)) =>
          \/ lastSuccessAt = 0
          \/ now - lastSuccessAt >= SCALING_COOLDOWN * 60 * 1000]_vars

\* C4: every capacity the backend is asked to set is the rounded
\* recommendation clamped into [MIN_INSTANCES, MAX_INSTANCES] and lies in
\* that range (the range being non-empty, MIN_INSTANCES <= MAX_INSTANCES).
C4_RequestedIsClamped ==
    \A i \in Invocations :
        (cycles[i].requested # 0 /\ MIN_INSTANCES <= MAX_INSTANCES) =>
            LET x == MathRound(cycles[i].recommendation[1].recommended_instances[1])
                clamped == IF x < MIN_INSTANCES THEN MIN_INSTANCES
                           ELSE IF x > MAX_INSTANCES THEN MAX_INSTANCES ELSE x
            IN /\ cycles[i].requested = clamped
               /\ MIN_INSTANCES <= cycles[i].requested
               /\ cycles[i].requested <= MAX_INSTANCES

C4_Witness ==
    \E i \in Invocations :
        /\ cycles[i].requested # 0
        /\ MIN_INSTANCES <= MAX_INSTANCES
        /\ MathRound(cycles[i].recommendation[1].recommended_instances[1]) > MAX_INSTANCES
        /\ cycles[i].requested = MAX_INSTANCES

\* C5: a recommendation whose confidence is present (0 included) and below
\* the threshold ends the cycle as LowConfidence with no backend call.
C5_LowConfidenceSkips ==
    \A i \in Invocations :
        (/\ cycles[i].recommendation # <<>>
         /\ cycles[i].recommendation[1].confidence # <<>>
         /\ cycles[i].recommendation[1].confidence[1] < CONFIDENCE_THRESHOLD) =>
            /\ cycles[i].outcome = "LowConfidence"
            /\ cycles[i].backendCalls = 0

\* C6: in dry-run mode the capacity-changing operation of the backend is
\* never invoked and the capacity is never changed.
C6_DryRunNeverCallsBackend ==
    DRY_RUN => \A i \in Invocations :
                   cycles[i].backendCalls = 0 /\ cycles[i].requested = 0
                       /\ cycles[i].pc \notin {"execute", "backoff"}

C6_Witness ==
    DRY_RUN /\ \E i \in Invocations :
                   /\ Done(i) /\ cycles[i].outcome = "Succeeded"
                   /\ cycles[i].targetCapacity # cycles[i].currentCapacity

\* C7: within a process lastScalingOperationTime changes only in the step
\* in which a cycle's scaling action succeeds (or is simulated), it is then
\* set to the current time, and it is never set back to unset; cycles that
\* are skipped or fail leave it as it was.
C7_TimestampOnlyOnSuccess ==
    [][\/ ProcessExit
       \/ /\ lastScalingOperationTime' # lastScalingOperationTime =>
                /\ lastScalingOperationTime' = now
                /\ \E i \in Invocations : Succeeds(i)
          /\ lastScalingOperationTime # 0 => lastScalingOperationTime' # 0]_vars

C7_Witness ==
    \E i \in Invocations :
        /\ Done(i) /\ cycles[i].outcome = "Failed"
        /\ cycles[i].backendCalls = RETRY_COUNT
        /\ lastScalingOperationTime # 0
        /\ lastScalingOperationTime < now

\* C8: a dry-run cycle ends exactly as a live cycle whose backend call
\* succeeds: in both modes the step that ends the cycle as Succeeded sets
\* lastScalingOperationTime to the current time and clears the in-progress
\* flag; the dry run differs only in making no backend call.
C8_DryRunMatchesLive ==
    [][\A i \in Invocations :
         Succeeds(i) =>
             /\ lastScalingOperationTime' = now
             /\ ~isScalingInProgress'
             /\ DRY_RUN => (cycles'[i].backendCalls = 0 /\ capacity' = capacity)]_vars

C10_FailureDistinguishable ==
    \A i, j \in Invocations :
        (Done(i) /\ Done(j) /\ cycles[i].outcome = "Failed"
                 /\ cycles[j].outcome # "Failed") =>
            cycles[i].returned # cycles[j].returned

\* The outcomes with which a call of checkAndScale returns normally.
TerminalOutcomes ==
    {"AlreadyInProgress", "InCooldown", "NoMetrics", "NoRecommendation",
     "LowConfidence", "NoChangeNeeded", "Succeeded", "Failed", "Error"}

\* C11: no exception escapes checkAndScale: whatever fails inside a cycle (the
\* state read, the metrics, the prompt, the recommender, the backend), the
\* call returns normally with a terminal outcome, and a cycle that has not
\* finished can always take its next step.
C11_NoExceptionEscapes ==
    \A i \in Invocations :
        /\ Done(i) => /\ cycles[i].returned = "undefined"
                      /\ cycles[i].outcome \in TerminalOutcomes
        /\ Running(i) => ENABLED checkAndScale(i)

\* A cycle whose state read threw ended normally as an error.
C11_Witness ==
    \E i \in Invocations :
        /\ Done(i)
        /\ cycles[i].outcome = "Error"
        /\ cycles[i].snapshot = "unread"
        /\ cycles[i].returned = "undefined"

\* C12: the in-progress flag is true exactly while a cycle that passed the
\* guard has not terminated, so it is clear after every terminal outcome, and
\* an invocation made when no cycle is running never ends as AlreadyInProgress.
C12_FlagTracksRunningCycle ==
    /\ [](isScalingInProgress <=> \E i \in Invocations : Running(i))
    /\ [][\A i \in Invocations :
            (Invoked(i) /\ \A j \in Invocations : ~Running(j)) =>
                cycles'[i].outcome # "AlreadyInProgress"]_vars

\* A cycle that exhausted the backend has ended and the flag is clear again.
C12_Witness ==
    \E i \in Invocations :
        /\ Done(i)
        /\ cycles[i].outcome = "Failed"
        /\ cycles[i].failedAttempts >= 1
        /\ ~isScalingInProgress
        /\ \A j \in Invocations : ~Running(j)

\* Everything that has to be true of a cycle before the backend is asked.
PassedChecks(c) ==
    /\ c.snapshot \in {"ok", "noTimestamp"}
    /\ c.snapshot = "noTimestamp" => script = "multicloud"
    /\ c.recommenderCalls = 1
    /\ c.recommendation # <<>>
    /\ validateRecommendation(c.recommendation[1])
    /\ EffectiveConfidence(c.recommendation[1]) >= CONFIDENCE_THRESHOLD
    /\ c.targetCapacity =
           Max(MIN_INSTANCES, Min(MAX_INSTANCES,
               MathRound(c.recommendation[1].recommended_instances[1])))
    /\ c.targetCapacity # c.currentCapacity

\* The order of the stages, as pairs of positions of one cycle.
StageOrder ==
    {<<"idle", "done">>, <<"idle", "getState">>,
     <<"getState", "loadMetrics">>, <<"getState", "done">>,
     <<"loadMetrics", "recommend">>, <<"loadMetrics", "done">>,
     <<"recommend", "execute">>, <<"recommend", "done">>,
     <<"execute", "backoff">>, <<"execute", "done">>,
     <<"backoff", "execute">>, <<"backoff", "done">>,
     <<"done", "idle">>}

\* C13: the stages run in order; the backend is asked only after the cooldown
\* has passed, metrics were found, a validated recommendation exists, the
\* confidence gate passed and the clamped target differs from the current
\* capacity; the timestamp is recorded only by a cycle that got through all of
\* that and executed.
C13_StagesInOrder ==
    /\ [](\A i \in Invocations :
            /\ (cycles[i].pc \in {"execute", "backoff"} \/ cycles[i].backendCalls > 0)
                  => PassedChecks(cycles[i])
            /\ cycles[i].pc \in {"execute", "backoff"}
                  => ~isInCooldown(lastScalingOperationTime, now, SCALING_COOLDOWN))
    /\ [][\A i \in Invocations :
            cycles'[i].pc # cycles[i].pc => <<cycles[i].pc, cycles'[i].pc>> \in StageOrder]_vars
    /\ [][lastScalingOperationTime' # lastScalingOperationTime =>
            \/ ProcessExit
            \/ \E i \in Invocations :
                 /\ cycles[i].pc \in {"recommend", "execute"}
                 /\ cycles'[i].outcome = "Succeeded"
                 /\ PassedChecks(cycles'[i])]_vars

\* A live cycle went through every stage, asked the backend and recorded the time.
C13_Witness ==
    \E i \in Invocations :
        /\ Done(i)
        /\ cycles[i].outcome = "Succeeded"
        /\ cycles[i].backendCalls >= 1
        /\ PassedChecks(cycles[i])
        /\ lastScalingOperationTime > 0

\* C14: when the clamped target equals the current capacity the cycle ends as
\* NoChangeNeeded, the backend is not asked and neither the timestamp nor the
\* capacity changes.
C14_NoChangeNeeded ==
    /\ [](\A i \in Invocations :
            ( /\ Done(i)
              /\ cycles[i].recommendation # <<>>
              /\ cycles[i].outcome # "LowConfidence"
              /\ Max(MIN_INSTANCES, Min(MAX_INSTANCES,
                      MathRound(cycles[i].recommendation[1].recommended_instances[1])))
                    = cycles[i].currentCapacity )
            => /\ cycles[i].outcome = "NoChangeNeeded"
               /\ cycles[i].backendCalls = 0
               /\ cycles[i].requested = 0)
    /\ [][\A i \in Invocations :
            (cycles[i].outcome # "NoChangeNeeded" /\ cycles'[i].outcome = "NoChangeNeeded")
            => /\ lastScalingOperationTime' = lastScalingOperationTime
               /\ capacity' = capacity
               /\ lastSuccessAt' = lastSuccessAt]_vars

\* A recommendation other than the current capacity was rounded or clamped
\* onto it, and the cycle ended without a change.
C14_Witness ==
    \E i \in Invocations :
        /\ Done(i)
        /\ cycles[i].outcome = "NoChangeNeeded"
        /\ cycles[i].targetCapacity = cycles[i].currentCapacity
        /\ cycles[i].recommendation[1].recommended_instances[1] # 2 * cycles[i].currentCapacity
        /\ cycles[i].backendCalls = 0

\* C15: without a metrics snapshot (directory missing, no file, file unreadable
\* or malformed) the cycle ends as NoMetrics and neither the recommender nor
\* the backend is invoked; no other cycle ends as NoMetrics.
C15_NoMetricsSkips ==
    \A i \in Invocations :
        /\ cycles[i].snapshot \in {"noDir", "noFile", "unreadable", "badJson", "noMetrics"}
             => /\ Done(i)
                /\ cycles[i].outcome = "NoMetrics"
                /\ cycles[i].returned = "undefined"
                /\ cycles[i].recommenderCalls = 0
                /\ cycles[i].backendCalls = 0
        /\ cycles[i].outcome = "NoMetrics"
             => cycles[i].snapshot \in SnapshotKinds \ {"ok"}

\* A snapshot file that is not JSON ended the cycle as NoMetrics.
C15_Witness ==
    \E i \in Invocations :
        /\ Done(i)
        /\ cycles[i].snapshot = "badJson"
        /\ cycles[i].outcome = "NoMetrics"
        /\ cycles[i].recommenderCalls = 0

\* C16: when the recommender yields no usable recommendation the cycle ends as
\* NoRecommendation: it does not crash, the backend is not asked and the
\* cooldown state is unchanged.
C16_NoRecommendationSkips ==
    /\ [](\A i \in Invocations :
            (cycles[i].recommenderCalls > 0 /\ cycles[i].recommendation = <<>>)
            => /\ Done(i)
               /\ cycles[i].outcome = "NoRecommendation"
               /\ cycles[i].returned = "undefined"
               /\ cycles[i].backendCalls = 0)
    /\ [][\A i \in Invocations :
            (cycles[i].outcome # "NoRecommendation" /\ cycles'[i].outcome = "NoRecommendation")
            => /\ lastScalingOperationTime' = lastScalingOperationTime
               /\ capacity' = capacity]_vars

\* The recommender was asked, returned nothing, and the cycle ended as skipped.
C16_Witness ==
    \E i \in Invocations :
        /\ Done(i)
        /\ cycles[i].recommenderCalls = 1
        /\ cycles[i].recommendation = <<>>
        /\ cycles[i].outcome = "NoRecommendation"
        /\ ~isScalingInProgress

\* The preconditions of the happy path, for a recommendation that states its
\* confidence.
HappyPath(c) ==
    /\ ~DRY_RUN
    /\ c.recommendation # <<>>
    /\ c.recommendation[1].confidence # <<>>
    /\ c.recommendation[1].confidence[1] >= CONFIDENCE_THRESHOLD
    /\ Max(MIN_INSTANCES, Min(MAX_INSTANCES,
            MathRound(c.recommendation[1].recommended_instances[1]))) # c.currentCapacity

\* C17: with metrics available, a valid recommendation whose confidence meets
\* the threshold, a clamped target other than the current capacity and a
\* backend that succeeds, the cycle ends as Succeeded and the backend was
\* asked for exactly the clamped target.
C17_HappyPath ==
    /\ [](\A i \in Invocations :
            /\ (HappyPath(cycles[i]) /\ cycles[i].backendCalls > 0)
                 => cycles[i].requested =
                       Max(MIN_INSTANCES, Min(MAX_INSTANCES,
                           MathRound(cycles[i].recommendation[1].recommended_instances[1])))
            /\ (HappyPath(cycles[i]) /\ Done(i)
                   /\ cycles[i].backendCalls > cycles[i].failedAttempts)
                 => cycles[i].outcome = "Succeeded")
    /\ [][\A i \in Invocations :
            (cycles[i].pc = "recommend" /\ HappyPath(cycles'[i]))
            => cycles'[i].pc = "execute"]_vars
    /\ [][\A i \in Invocations :
            (cycles[i].pc = "execute" /\ HappyPath(cycles[i])
               /\ cycles'[i].backendCalls = cycles[i].backendCalls + 1
               /\ cycles'[i].failedAttempts = cycles[i].failedAttempts)
            => /\ cycles'[i].outcome = "Succeeded"
               /\ lastScalingOperationTime' = now]_vars

\* Current 2, limits 2..3, recommendation 3 with confidence above the
\* threshold: the backend was asked once, for 3, and the cycle succeeded.
C17_Witness ==
    \E i \in Invocations :
        /\ Done(i)
        /\ HappyPath(cycles[i])
        /\ cycles[i].currentCapacity = 2
        /\ MIN_INSTANCES = 2 /\ MAX_INSTANCES = 3
        /\ cycles[i].recommendation[1].recommended_instances[1] = 2 * 3
        /\ cycles[i].backendCalls = 1
        /\ cycles[i].requested = 3
        /\ cycles[i].outcome = "Succeeded"

\* C18: every successful cycle leaves the recorded timestamp strictly greater
\* than it was, and within one process the timestamp never decreases.
C18_TimestampIncreases ==
    [][\/ ProcessExit
       \/ /\ lastScalingOperationTime' >= lastScalingOperationTime
          /\ \A i \in Invocations :
                Succeeds(i) => lastScalingOperationTime' > lastScalingOperationTime]_vars

\* The ways a model call fails after a request was made.
CallFailures == {"error", "missing", "unparseable", "invalid"}

\* C19: one recommend call invokes at most two models, the primary and then at
\* most once the fallback, never a fallback of the fallback, and it always
\* returns; when the primary model is the fallback model exactly one model
\* attempt is made.
C19_AtMostTwoModels ==
    /\ [](/\ Len(ollama.calls) <= 2
          /\ ollama.depth = Len(ollama.calls)
          /\ Len(ollama.calls) = 2 =>
                /\ ollama.calls[1].outcome \in CallFailures
                /\ ollama.calls[2].model = ollama.OLLAMA_FALLBACK_MODEL
                /\ ollama.calls[2].model # ollama.calls[1].model
          /\ (ollama.pc = "returned"
                /\ ollama.calls[1].model = ollama.OLLAMA_FALLBACK_MODEL) =>
                Len(ollama.calls) = 1)
    /\ (ollama.pc \in {"post", "delay"}) ~> (ollama.pc = "returned")

\* Both models were asked, one after the other, both failed, and the call
\* returned null.
C19_Witness ==
    /\ ollama.pc = "returned"
    /\ Len(ollama.calls) = 2
    /\ ollama.calls[2].outcome \in CallFailures
    /\ ollama.result = <<>>

\* C20: when the primary model's call fails outright after its transport
\* retries, or its response is missing or fails parsing or validation, and the
\* fallback is another model, the fallback is called once with the same prompt
\* and the same system prompt, and a valid recommendation from the fallback is
\* the result of the call.
C20_FallbackOnPrimaryFailure ==
    (/\ Len(ollama.calls) >= 1
     /\ ollama.calls[1].outcome \in CallFailures
     /\ ollama.calls[1].model # ollama.OLLAMA_FALLBACK_MODEL)
    => /\ Len(ollama.calls) = 2
       /\ ollama.calls[1].outcome = "error" =>
             ollama.calls[1].attempts = ollama.OLLAMA_RETRY_COUNT
       /\ ollama.calls[2].model = ollama.OLLAMA_FALLBACK_MODEL
       /\ ollama.calls[2].prompt = ollama.calls[1].prompt
       /\ ollama.calls[2].system = ollama.calls[1].system
       /\ ollama.pc = "returned" => ollama.calls[2].attempts >= 1
       /\ ollama.calls[2].outcome = "valid" =>
             /\ ollama.pc = "returned"
             /\ ollama.result = ollama.calls[2].value
             /\ ollama.result \in RecommenderResults \ {<<>>}

\* The primary failed on every transport attempt, the fallback answered the
\* same custom-prompted request with a valid recommendation, and that is the
\* result.
C20_Witness ==
    /\ ollama.pc = "returned"
    /\ Len(ollama.calls) = 2
    /\ ollama.calls[1].outcome = "error"
    /\ ollama.calls[1].attempts = 2
    /\ ollama.calls[1].system = "custom system prompt"
    /\ ollama.calls[2].outcome = "valid"
    /\ ollama.result = ollama.calls[2].value
    /\ ollama.result # <<>>

\* C21: the recommend call returns null only after the primary attempt failed
\* and, when the fallback is another model, the fallback attempt failed too; a
\* transport failure of either is declared only when its configured attempts
\* are used up.
C21_NullOnlyAfterBothFailed ==
    (ollama.pc = "returned" /\ ~ollama.threw /\ ollama.result = <<>>)
    => /\ ollama.calls[1].outcome \in CallFailures
       /\ ollama.calls[1].model # ollama.OLLAMA_FALLBACK_MODEL =>
             /\ Len(ollama.calls) = 2
             /\ ollama.calls[2].outcome \in CallFailures
       /\ \A k \in 1..Len(ollama.calls) :
             ollama.calls[k].outcome = "error" =>
                 ollama.calls[k].attempts = ollama.OLLAMA_RETRY_COUNT

\* Null was returned after the primary ran out of transport attempts and the
\* fallback answered with something unusable.
C21_Witness ==
    /\ ollama.pc = "returned"
    /\ ~ollama.threw
    /\ ollama.result = <<>>
    /\ Len(ollama.calls) = 2
    /\ ollama.calls[1].outcome = "error"
    /\ ollama.calls[1].attempts = 2
    /\ ollama.calls[2].outcome = "invalid"

\* C22: each model call makes at least one and at most OLLAMA_RETRY_COUNT HTTP
\* attempts, waits OLLAMA_RETRY_DELAY * attempt between consecutive attempts
\* and stops at the first success, so one recommend call issues at most
\* 2 * OLLAMA_RETRY_COUNT requests.
C22_BoundedHttpAttempts ==
    /\ \A k \in 1..Len(ollama.calls) :
         LET call == ollama.calls[k] IN
         /\ call.attempts <= ollama.OLLAMA_RETRY_COUNT
         /\ call.outcome # "pending" => call.attempts >= 1
         /\ call.outcome \in {"valid", "missing", "unparseable", "invalid"} =>
               Len(call.delays) = call.attempts - 1
         /\ \A a \in 1..Len(call.delays) :
               call.delays[a] = ollama.OLLAMA_RETRY_DELAY * a
    /\ Len(ollama.calls) = 2 =>
         ollama.calls[1].attempts + ollama.calls[2].attempts
             <= 2 * ollama.OLLAMA_RETRY_COUNT

\* C30: a recommendation leads to a scaling action, real or simulated, only
\* if its confidence is strictly above the threshold; one exactly at the
\* threshold is not acted upon.
C30_StrictlyAboveThreshold ==
    \A i \in Invocations :
        (cycles[i].backendCalls > 0 \/ cycles[i].outcome = "Succeeded")
        => EffectiveConfidence(cycles[i].recommendation[1]) > CONFIDENCE_THRESHOLD

\* C23: the parser never evaluates recommender text as code: when JSON
\* parsing of the repaired text fails, the result is a parse failure and the
\* text is not evaluated.
C23_NeverEvaluatesText ==
    parser.pc = "parsed" =>
        /\ ~parser.result.evaluated
        /\ ~JSONParse(Repair(parser.text)).ok => parser.result.outcome = "unparseable"

\* The field rules of a recommendation, on an object with typed values.
FieldRules(obj) ==
    /\ obj.recommended_instances # <<>>
    /\ obj.recommended_instances[1].t = "number"
    /\ ~obj.recommended_instances[1].nan
    /\ obj.recommended_instances[1].n % 2 = 0
    /\ obj.recommended_instances[1].n \div 2 >= 1
    /\ obj.confidence # <<>> =>
         /\ obj.confidence[1].t = "number"
         /\ obj.confidence[1].n >= 0
         /\ obj.confidence[1].n <= 100
    /\ obj.reasoning # <<>> => obj.reasoning[1].t = "string"

C25_RoundTrip ==
    (parser.pc = "parsed" /\ WellFormed(parser.shape)) =>
        /\ parser.result.outcome = "valid"
        /\ parser.result.value = <<Denoted(parser.shape)>>
        /\ JSONParse(Trim(parser.text)).ok => parser.result.responseText = Trim(parser.text)

\* The percentage a change has to exceed to count as a trend.
TrendThreshold(s) == IF s = "azure" THEN 5 ELSE 10

\* The chronologically earlier and later half of a series of even length.
EarlierHalf(samples) == SubSeq(samples, 1, Len(samples) \div 2)
LaterHalf(samples) == SubSeq(samples, Len(samples) \div 2 + 1, Len(samples))

\* C26: the trend compares the chronologically earlier half of the samples
\* with the later half, in the order the collector delivers them: a series
\* whose later-half mean exceeds its earlier-half mean by more than the
\* threshold percentage is Increasing, one whose later-half mean is lower by
\* more than the threshold is Decreasing.
C26_TrendFollowsTime ==
    ( /\ trend.pc = "summarised"
      /\ Len(trend.samples) \in {2, 4}
      /\ trend.summary.trend # "Unknown"
      /\ Sum(EarlierHalf(trend.samples)) # 0 )
    => LET earlier == EarlierHalf(trend.samples)
           later == LaterHalf(trend.samples)
       IN /\ ExceedsPercent(earlier, later, Abs(Sum(earlier)), TrendThreshold(script))
               => trend.summary.trend = "Increasing"
          /\ FallsPercent(earlier, later, Abs(Sum(earlier)), TrendThreshold(script))
               => trend.summary.trend = "Decreasing"

\* C27: a series whose first-half mean is exactly 0 and whose second-half
\* mean is positive is Increasing, the halves being the ones the code calls
\* first and second; the trend is always one of the classifications.
C27_ZeroFirstHalfIncreasing ==
    trend.pc = "summarised" =>
        /\ trend.summary.trend \in {"Increasing", "Decreasing", "Stable", "Unknown"}
        /\ LET values == Delivered(trend.samples) IN
           ( /\ Len(values) >= 3
             /\ Sum(FirstHalf(values, script)) = 0
             /\ Sum(SecondHalf(values, script)) > 0 )
           => trend.summary.trend = "Increasing"

\* C28: the summary of an empty series has no current value, no average and
\* the trend Stable.
C28_EmptySeriesIsStable ==
    (trend.pc = "summarised" /\ trend.samples = <<>>) =>
        /\ trend.summary.current = <<>>
        /\ trend.summary.average = <<>>
        /\ trend.summary.trend = "Stable"

\* C29: when a custom template is configured but cannot be read, prompt
\* building does not raise and returns the prompt of the built-in template;
\* placeholders of a readable template for which the script defines no value
\* are left in the output as they are, without error.
C29_TemplateFallback ==
    builder.pc = "built" =>
        /\ ~builder.built.threw
        /\ builder.file \in {"missing", "unreadable"} => builder.built.text = BuiltInPrompt
        /\ builder.file = "readable" =>
              /\ Len(builder.built.text) = Len(builder.template)
              /\ \A tok \in TemplateTokens \ Recognised(script) :
                    /\ Positions(builder.built.text, tok) = Positions(builder.template, tok)

\* A template that could not be read gave the built-in prompt.
C29_Witness ==
    /\ builder.pc = "built"
    /\ builder.file = "unreadable"
    /\ builder.template # <<>>
    /\ ~builder.built.threw
    /\ builder.built.text = BuiltInPrompt

\* C34: with a readable custom template the built prompt contains no
\* recognised placeholder: every occurrence of each is replaced by its value,
\* also when the template uses one more than once.
C34_EveryOccurrenceReplaced ==
    (builder.pc = "built" /\ builder.file = "readable") =>
        \A tok \in Recognised(script) : Positions(builder.built.text, tok) = {}

\* C33: a scaling action is recorded as successful (outcome Succeeded and
\* lastScalingOperationTime set) only if the backend reported the target
\* capacity; a completed operation that reports another capacity is not a
\* success.
C33_SuccessOnlyWhenConfirmed ==
    [][\A i \in Invocations :
          (cycles[i].pc = "execute" /\ cycles'[i].outcome = "Succeeded") =>
              capacity' = cycles'[i].requested]_vars

InvalidFields(values) ==
    (IF values.name = "" THEN {"name"} ELSE {}) \cup
    (IF values.email = "" THEN {"email"} ELSE {}) \cup
    (IF values.age < MinimumAge THEN {"age"} ELSE {})

Submitted == form'.submits = form.submits + 1

\* The part of C32 about the call of onSubmit: invalid values are never
\* passed on and leave a message for each invalid field and no success;
\* valid values are passed on exactly as they are.
OnSubmitOnlyWithValidValues ==
    /\ (Submitted /\ InvalidFields(form.values) # {}) =>
          /\ form'.calledWith = <<>>
          /\ form'.pc = "ready"
          /\ \A f \in InvalidFields(form.values) :
                f \in DOMAIN form'.errors /\ form'.errors[f] # ""
          /\ ~form'.isSuccess
    /\ (Submitted /\ InvalidFields(form.values) = {}) =>
          /\ form'.calledWith = <<form.values>>
          /\ form'.pc = "awaiting"

Settled == form.pc = "awaiting" /\ form'.pc = "ready"

\* C32 as stated: handleSubmit calls onSubmit only with values that pass the
\* schema; after a failed validation onSubmit was not called, errors holds a
\* message for each invalid field and isSuccess is false; after a passed
\* validation onSubmit was called with the current values and isSuccess
\* becomes true.
C32_SubmitValidatedValues ==
    [][/\ OnSubmitOnlyWithValidValues
       /\ Settled => form'.isSuccess]_vars

\* C32 amended: as above, but isSuccess becomes true only when the promise
\* of onSubmit resolves; when it rejects isSuccess stays false.
C32_SuccessWhenOnSubmitResolves ==
    [][/\ OnSubmitOnlyWithValidValues
       /\ Settled => (form'.isSuccess <=> form'.settled = "resolved")]_vars

\* A valid form was submitted, onSubmit received its values and resolved.
C32_Witness ==
    /\ form.pc = "ready"
    /\ form.settled = "resolved"
    /\ form.calledWith = <<form.values>>
    /\ form.isSuccess
    /\ form.submits = 2

\* C35: no code path changes the capacity of the scale set to a value
\* outside [MIN_INSTANCES, MAX_INSTANCES]; a recommendation applied through
\* the API honours the limits of the scheduled engine.
C35_ApiHonoursLimits ==
    [][capacity' # capacity =>
          (capacity' >= MIN_INSTANCES /\ capacity' <= MAX_INSTANCES)]_vars

\* C36: once an apply has changed the capacity and deleted the cache entry,
\* no GET that starts later is answered with a recommendation computed
\* before that change.
C36_NoStaleRecommendation ==
    \A r \in ApiRequests :
        (api.reqs[r].kind = "get" /\ api.reqs[r].answer # <<>>) =>
            api.reqs[r].answer[1].epoch >= api.reqs[r].since

\* The requests of `ip` among the first n that were let through at a time
\* in the window of length windowMs that ends at t.
PassedInWindow(ip, n, t) ==
    {k \in 1..n : /\ limiter.log[k].ip = ip
                  /\ limiter.log[k].passed
                  /\ limiter.log[k].time > t - limiter.windowMs
                  /\ limiter.log[k].time <= t}

\* C37: for every IP and every window of length windowMs at most max
\* requests are let through and every further request in the window gets
\* 429; a request is refused only on account of requests of its own IP.
C37_AtMostMaxPerWindow ==
    /\ \A ip \in Ips, t \in 0..limiter.now :
          Cardinality(PassedInWindow(ip, Len(limiter.log), t)) <= limiter.max
    /\ \A k \in 1..Len(limiter.log) :
          LET before == Cardinality(PassedInWindow(limiter.log[k].ip, k - 1,
                                                   limiter.log[k].time)) IN
          limiter.log[k].passed <=> before < limiter.max

\* One IP was refused and, at the same time, the other was let through.
C37_Witness ==
    \E j, k \in 1..Len(limiter.log) :
        /\ j < k
        /\ limiter.log[j].ip # limiter.log[k].ip
        /\ limiter.log[j].time = limiter.log[k].time
        /\ ~limiter.log[j].passed
        /\ limiter.log[k].passed

\* C38: POST /api/auth/setup creates the admin user only if no user
\* exists: at most one request is ever answered with a created user, also
\* when several are processed concurrently.
C38_AtMostOneAdmin ==
    Cardinality({r \in SetupRequests : setup.reqs[r].status = 201}) <= 1
====
